---- MODULE Spec2Model ----
(***************************************************************************)
(* Model of the backend of the mobile IDE: the command router / supervisor *)
(* (main.js), the script runner (script-runner.js), the npm-lite install   *)
(* path (npm-lite/index.js, resolver.js, installer.js) and the abort path  *)
(* of the preview server (dev-server.js).                                  *)
(*                                                                         *)
(* The host is one single-threaded event loop.  One action of the model is *)
(* one macrotask: the handling of an inbound frame, of an app event or of  *)
(* an I/O completion, together with every microtask continuation (awaits   *)
(* that are already resolved) it triggers.                                 *)
(***************************************************************************)
EXTENDS Integers, Sequences, FiniteSets, TLC

\* ------------------------------------------------------------- bounds ----
MaxMsgs   == 2   \* inbound exec / kill frames of one run
MaxPauses == 1   \* app pause events of one run
MaxTicks  == 1   \* timer callbacks of user scripts that fire in one run
NPkgs     == 5   \* packages the registry knows

BATCH_SIZE == 4  \* installer.js

Handlers == 1..MaxMsgs        \* the n-th inbound frame is handled by handler n
NoTask   == 0                 \* "no entry" in activeTasks, "original" in globals
Suspended == 0 - 1            \* "return value" of a call that is still awaiting
Died      == 0 - 2            \* ... of a call during which the host process ended
Thrown    == 0 - 3            \* ... of a call that threw

\* The registry: package p has one published version, RegVersion(p), whose
\* dependencies are RegDeps(p); package 2 depends on package 1.
Pkgs == 1..NPkgs
RegVersion(p) == 1
RegDeps(p) == IF p = 2 THEN <<1>> ELSE <<>>

VARIABLES
  session,      \* what the frames of this run ask for: "scripts" or "npm"
  alive,        \* the host process is running
  nmsg,         \* inbound frames handled so far
  npause,       \* pause events handled so far
  ticks,        \* script timer callbacks fired so far
  req,          \* req[h]: the inbound frame handler h received
  cmd,          \* cmd[h]: the command exec handler h is running
  activeTasks,  \* main.js activeTasks: request id -> handler holding the entry
  aborted,      \* aborted[h]: controller.signal.aborted of exec handler h
  pc,           \* pc[h]: where exec handler h is suspended
  chain,        \* chain[h]: the parts of the script string still to run
  globals,      \* process.cwd/exit/argv and console.*: whose patch is installed
  saved,        \* saved[h]: the originals runFile of handler h captured
  timer,        \* a user script has left a timer running
  sent,         \* every frame given to rn_bridge.channel.send, in order
  paused,       \* handlers whose entry a pause event aborted and cleared
  inst,         \* inst[h]: resolver and installer state of install handler h
  packumentCache, \* resolver.js packumentCache: names whose packument is cached
  pkgJson,      \* the project's package.json: whether it exists, its dependencies
  nodeModules,  \* version in node_modules/<p>/package.json, 0 when there is none
  lockfile,     \* package-lock.json: whether it exists, its entries
  sem,          \* the call of a semver function under study and what it returned
  tar,          \* the archive tar.extract is reading and the files it has made
  dev,          \* dev-server.js: the project served, the bundle built, the polls held
  npm           \* npm-lite: the script string run, process.env, the bin stubs

vars == <<session, alive, nmsg, npause, ticks, req, cmd, activeTasks, aborted, pc, chain,
          globals, saved, timer, sent, paused, inst, packumentCache, pkgJson,
          nodeModules, lockfile, sem, tar, dev, npm>>

\* The state of the command runtime
runtime == <<session, alive, nmsg, npause, ticks, req, cmd, activeTasks, aborted, pc,
             chain, globals, saved, timer, sent, paused, inst, packumentCache,
             pkgJson, nodeModules, lockfile>>

\* ------------------------------------------------------------- frames ----
Frame(id, type, code) == [id |-> id, type |-> type, code |-> code]

GlobalNames == {"cwd", "exit", "argv", "log", "error", "warn", "info", "debug", "dir"}
Orig == [g \in GlobalNames |-> NoTask]

NoReq == [type |-> "none", id |-> 0, processId |-> 0]

\* Resolver / installer state of one install: the top-level dependencies not
\* yet started, the pending names of the one in progress, the name whose
\* packument is being fetched, the resolved map (in insertion order), the
\* first index of the current batch, and each package's state in its batch.
NoInst == [deps |-> <<>>, stack |-> <<>>, active |-> FALSE, cur |-> 0,
           resolved |-> <<>>, at |-> 0, st |-> [p \in Pkgs |-> "-"]]

\* The part of the state the handlers' code transforms, as one value, so that
\* a macrotask and the microtasks it triggers compose.
World == [alive |-> alive, hid |-> [h \in Handlers |-> req[h].id], cmd |-> cmd,
          activeTasks |-> activeTasks, aborted |-> aborted, pc |-> pc,
          chain |-> chain, globals |-> globals, saved |-> saved,
          timer |-> timer, sent |-> sent, inst |-> inst,
          packumentCache |-> packumentCache, pkgJson |-> pkgJson,
          nodeModules |-> nodeModules, lockfile |-> lockfile, ret |-> Suspended]

\* send(msg)
Send(w, f) == [w EXCEPT !.sent = Append(@, f)]

\* emit.stdout / emit.stderr of exec handler h: a frame carrying h's request id
Emit(w, h, stream) == Send(w, Frame(w.hid[h], stream, 0))

\* A call of console.<name> by user code: the original writes to the host's
\* own console, a patched one goes to the emit of the handler that patched it.
ConsoleWrite(w, name, stream) ==
  IF w.globals[name] = NoTask THEN w ELSE Emit(w, w.globals[name], stream)

\* ------------------------------------------------------ script runner ----
\* A user script: whether the file exists, whether its synchronous body calls
\* console.log, how the body ends, and whether it leaves a timer behind.
ScriptLong  == [exists |-> TRUE, log |-> TRUE, end |-> "return", code |-> 0, timer |-> TRUE]
ScriptThrow == [exists |-> TRUE, log |-> TRUE, end |-> "throw", code |-> 0, timer |-> FALSE]
ScriptExit  == [exists |-> TRUE, log |-> FALSE, end |-> "exit", code |-> 3, timer |-> FALSE]
ScriptNone  == [exists |-> FALSE, log |-> FALSE, end |-> "return", code |-> 0, timer |-> FALSE]
Scripts == {ScriptLong, ScriptThrow, ScriptExit, ScriptNone}

\* runFile, "Patch globals"
PatchGlobals(w, h) ==
  [w EXCEPT !.saved[h] = w.globals, !.globals = [g \in GlobalNames |-> h]]

\* runFile, finally block: every global gets the value saved at entry
RestoreGlobals(w, h) ==
  [w EXCEPT !.globals = w.saved[h], !.saved[h] = Orig]

\* runFile up to its await: the file check, the patch, the synchronous body
\* of the script, and the catch / finally when the body does not return.
RunFile(w, h, s) ==
  IF ~s.exists THEN [Emit(w, h, "stderr") EXCEPT !.ret = 1]
  ELSE
    LET w1 == PatchGlobals(w, h)
        w2 == IF s.log THEN ConsoleWrite(w1, "log", "stdout") ELSE w1
        w3 == IF s.timer THEN [w2 EXCEPT !.timer = TRUE] ELSE w2
    IN CASE s.end = "return" -> [w3 EXCEPT !.ret = Suspended, !.pc[h] = "await"]
         [] s.end = "exit"   -> [RestoreGlobals(w3, h) EXCEPT !.ret = s.code]
         [] OTHER            -> [RestoreGlobals(Emit(w3, h, "stderr"), h) EXCEPT !.ret = 1]

\* runFile after its await (setImmediate fired, or the abort listener ran)
RunFileReturn(w, h) == [RestoreGlobals(w, h) EXCEPT !.ret = 0]

\* node -e / -p code: how it ends
EvalCodes == {"return", "exit"}

\* runEval: patches process.cwd, console.log and console.error only; a call
\* of process.exit reaches whatever process.exit currently is.
RunEval(w, h, end) ==
  LET g0 == w.globals
      w1 == [w EXCEPT !.globals = [g0 EXCEPT !.cwd = h, !.log = h, !.error = h]]
      w2 == ConsoleWrite(w1, "log", "stdout")
      restore(x) == [x EXCEPT !.globals = [x.globals EXCEPT !.cwd = g0.cwd,
                                             !.log = g0.log, !.error = g0.error]]
  IN CASE end = "return" -> [restore(w2) EXCEPT !.ret = 0]
       [] end = "exit" /\ g0.exit = NoTask -> [w2 EXCEPT !.alive = FALSE, !.ret = Died]
       [] OTHER -> [restore(Emit(w2, h, "stderr")) EXCEPT !.ret = 1]

\* ---------------------------------------------------------- supervisor ----
\* case 'exec', the async block: exit frame, then finally activeTasks.delete(id)
Finish(w, h, code) ==
  [Send(w, Frame(w.hid[h], "exit", code))
     EXCEPT !.activeTasks[w.hid[h]] = NoTask, !.pc[h] = "done", !.cmd[h] = "",
            !.chain[h] = <<>>, !.inst[h].st = NoInst.st]

\* case 'exec', the async block when executeCommand throws
FinishError(w, h) ==
  [Send(w, Frame(w.hid[h], "error", 0))
     EXCEPT !.activeTasks[w.hid[h]] = NoTask, !.pc[h] = "done", !.cmd[h] = "",
            !.chain[h] = <<>>, !.inst[h].st = NoInst.st]

\* One part of a script string ("a && b"): a node invocation or a shell builtin
NodePart(s) == [kind |-> "node", script |-> s, code |-> 0]
ShPart(c)   == [kind |-> "sh", script |-> ScriptNone, code |-> c]

\* executeSingle: node -> runFile; a builtin -> shellCommands.run, which writes
\* to the task's emit and returns its code
ExecuteSingle(w, h, part) ==
  IF part.kind = "node" THEN RunFile(w, h, part.script)
  ELSE [Emit(w, h, IF part.code = 0 THEN "stdout" ELSE "stderr") EXCEPT !.ret = part.code]

\* executeScriptString, from the return of the part at the head of chain[h]:
\* a non-zero code ends the chain, the token is looked at before the next part
RECURSIVE ExecuteScriptString(_, _)
ExecuteScriptString(w, h) ==
  IF w.ret \in {Suspended, Died} THEN w
  ELSE IF w.ret # 0 THEN Finish(w, h, w.ret)
  ELSE LET rest == Tail(w.chain[h])
           w1   == [w EXCEPT !.chain[h] = rest]
       IN IF rest = <<>> THEN Finish(w1, h, 0)
          ELSE IF w.aborted[h] THEN Finish(w1, h, 130)
          ELSE ExecuteScriptString(ExecuteSingle(w1, h, Head(rest)), h)

\* runScript for a script the package.json defines: the two banner lines, then
\* the chain
RunScript(w, h, parts) ==
  IF ~w.pkgJson.exists THEN [Emit(w, h, "stderr") EXCEPT !.ret = 1]
  ELSE LET w1 == Emit(Emit([w EXCEPT !.chain[h] = parts], h, "stdout"), h, "stdout")
       IN ExecuteSingle(w1, h, Head(parts))

\* runScript('start') without a start script, server.js or index.js: the
\* banner, then dev-server start; listen reports on the next tick; the promise
\* is resolved by the 'error' event (1) or by the abort listener (0)
DevServerStart(w, h, listenOk) ==
  IF ~w.pkgJson.exists THEN [Emit(w, h, "stderr") EXCEPT !.ret = 1]
  ELSE LET w1 == Emit(w, h, "stdout")
       IN IF listenOk
          THEN [Emit(Emit(w1, h, "stdout"), h, "stdout")
                  EXCEPT !.pc[h] = "serving", !.ret = Suspended]
          ELSE [Emit(w1, h, "stderr") EXCEPT !.ret = 1]

\* dev-server abort listener: server.close(), a stdout line, resolve(0)
DevServerAbort(w, h) == Emit(w, h, "stdout")

\* ------------------------------------------------------------ npm-lite ----
InSeq(x, q) == \E i \in 1..Len(q) : q[i] = x

\* resolveDep once the packument of n is at hand: resolved.set(n), then the
\* sub-dependencies of the chosen version, depth first
PickVersion(w, h, n) ==
  [w EXCEPT !.inst[h].resolved = Append(@, n),
            !.inst[h].stack = RegDeps(n) \o Tail(@)]

\* resolve / resolvePackages: the loop over the top-level names and the
\* recursion of resolveDep, up to the next packument that has to be fetched.
\* A name already in the resolved map is skipped; a cached packument is used
\* without a fetch; resolve (not resolvePackages) writes a progress line after
\* each top-level name.
RECURSIVE ResolveRun(_, _)
ResolveRun(w, h) ==
  LET r == w.inst[h]
  IN IF r.stack # <<>>
     THEN LET n == Head(r.stack)
          IN IF InSeq(n, r.resolved)
             THEN ResolveRun([w EXCEPT !.inst[h].stack = Tail(@)], h)
             ELSE IF n \in w.packumentCache
             THEN ResolveRun(PickVersion(w, h, n), h)
             ELSE [w EXCEPT !.inst[h].cur = n, !.pc[h] = "fetch", !.ret = Suspended]
     ELSE IF r.active
     THEN ResolveRun([(IF w.cmd[h] = "install" THEN Emit(w, h, "stdout") ELSE w)
                        EXCEPT !.inst[h].active = FALSE], h)
     ELSE IF r.deps # <<>>
     THEN ResolveRun([w EXCEPT !.inst[h].stack = <<Head(r.deps)>>,
                               !.inst[h].deps = Tail(r.deps),
                               !.inst[h].active = TRUE], h)
     ELSE [w EXCEPT !.pc[h] = "resolved", !.ret = 0]

\* Variant of isInstalled that finds no package installed
IsInstalledNever(w, p) == FALSE

\* isInstalled(dest, version)
IsInstalled(w, p) == w.nodeModules[p] = RegVersion(p)

\* installResolved, the start of the batch at index at: a package already
\* installed at the resolved version is reported as cached, the download of
\* every other package of the batch is started
RECURSIVE StartBatch(_, _, _)
StartBatch(w, h, i) ==
  LET r == w.inst[h]
  IN IF i > Len(r.resolved) \/ i >= r.at + BATCH_SIZE THEN w
     ELSE LET p == r.resolved[i]
          IN StartBatch(IF IsInstalled(w, p)
                        THEN [Emit(w, h, "stdout") EXCEPT !.inst[h].st[p] = "cached"]
                        ELSE [w EXCEPT !.inst[h].st[p] = "dl"], h, i + 1)

\* The packages of the current batch that have not settled
InFlight(w, h) ==
  {p \in Pkgs : w.inst[h].st[p] \in {"dl", "ext"}
                /\ \E i \in w.inst[h].at..(w.inst[h].at + BATCH_SIZE - 1) :
                      i <= Len(w.inst[h].resolved) /\ w.inst[h].resolved[i] = p}

\* writeLockfile
WriteLockfile(w, h) ==
  [w EXCEPT !.lockfile =
     [exists |-> TRUE,
      deps |-> [i \in 1..Len(w.inst[h].resolved) |->
                  [name |-> w.inst[h].resolved[i],
                   version |-> RegVersion(w.inst[h].resolved[i])]]]]

\* The names of a set, ascending (sortObj)
RECURSIVE SortedSeq(_)
SortedSeq(S) ==
  IF S = {} THEN <<>>
  ELSE LET m == CHOOSE x \in S : \A y \in S : x <= y
       IN <<m>> \o SortedSeq(S \ {m})

\* install / installSpecific after installResolved has returned
AfterInstall(w, h) ==
  IF w.cmd[h] = "install"
  THEN [Emit(WriteLockfile(w, h), h, "stdout") EXCEPT !.ret = 0]
  ELSE LET old  == {w.pkgJson.deps[i] : i \in 1..Len(w.pkgJson.deps)}
           new  == {n \in Pkgs : InSeq(n, w.chain[h]) /\ InSeq(n, w.inst[h].resolved)}
           w1   == [w EXCEPT !.pkgJson = [exists |-> TRUE, deps |-> SortedSeq(old \cup new)]]
       IN [WriteLockfile(Emit(w1, h, "stdout"), h) EXCEPT !.ret = 0]

\* Variant of the catch that goes on as if installResolved had returned
CancelledIgnored(w, h) == AfterInstall(w, h)

\* install / installSpecific, the catch around resolve and installResolved,
\* for the 'Installation cancelled' error
Cancelled(w, h) ==
  [Emit(w, h, "stderr") EXCEPT !.ret = IF w.cmd[h] = "install" THEN 130 ELSE 1]

\* installResolved from the head of the loop over the batches: the token is
\* looked at, the batch is started; a batch with nothing to download settles
\* at once; after the last batch a newline is written
RECURSIVE InstallResolved(_, _)
InstallResolved(w, h) ==
  LET r == w.inst[h]
  IN IF r.at > Len(r.resolved) THEN AfterInstall(Emit(w, h, "stdout"), h)
     ELSE IF w.aborted[h] THEN Cancelled(w, h)
     ELSE LET w1 == StartBatch(w, h, r.at)
          IN IF InFlight(w1, h) = {}
             THEN InstallResolved([w1 EXCEPT !.inst[h].at = @ + BATCH_SIZE], h)
             ELSE [w1 EXCEPT !.pc[h] = "batch", !.ret = Suspended]

\* install / installSpecific once the resolver has returned
AfterResolve(w, h) ==
  IF w.ret = Suspended THEN w
  ELSE LET w0 == [w EXCEPT !.inst[h].at = 1]
       IN IF w.cmd[h] = "install"
          THEN InstallResolved(Emit(Emit(Emit(w0, h, "stdout"), h, "stdout"), h, "stdout"), h)
          ELSE IF w.inst[h].resolved = <<>>
          THEN [Emit(w, h, "stderr") EXCEPT !.ret = 1]
          ELSE InstallResolved(Emit(w0, h, "stdout"), h)

\* install(cwd, emit, signal, opts) without package arguments
Install(w, h) ==
  IF ~w.pkgJson.exists THEN [Emit(Emit(w, h, "stderr"), h, "stderr") EXCEPT !.ret = 1]
  ELSE IF w.pkgJson.deps = <<>> THEN [Emit(w, h, "stdout") EXCEPT !.ret = 0]
  ELSE AfterResolve(ResolveRun([Emit(w, h, "stdout")
                                  EXCEPT !.inst[h] = [NoInst EXCEPT !.deps = w.pkgJson.deps]], h), h)

\* installSpecific(packageNames, ...); chain[h] keeps the names asked for
InstallSpecific(w, h, names) ==
  AfterResolve(ResolveRun([Emit(w, h, "stdout")
                             EXCEPT !.inst[h] = [NoInst EXCEPT !.deps = names],
                                    !.chain[h] = names], h), h)

\* registry.fetchPackument settles for the name being resolved: the packument
\* is cached and resolveDep goes on, or the failure is caught and warned about
FetchSettled(w, h, ok) ==
  LET n  == w.inst[h].cur
      w1 == [w EXCEPT !.inst[h].cur = 0]
  IN AfterResolve(ResolveRun(
       IF ok THEN PickVersion([w1 EXCEPT !.packumentCache = @ \cup {n}], h, n)
       ELSE [Emit(w1, h, "stderr") EXCEPT !.inst[h].stack = Tail(@)], h), h)

\* Variant of the end of the batch that goes on when the first package settles
BatchSettledEarly(w, h) ==
  InstallResolved([w EXCEPT !.inst[h].at = @ + BATCH_SIZE], h)

\* installResolved, the end of the batch: Promise.all settles when no package
\* of the batch is in flight, and the loop goes to the next batch
BatchSettled(w, h) ==
  IF InFlight(w, h) # {} THEN w
  ELSE InstallResolved([w EXCEPT !.inst[h].at = @ + BATCH_SIZE], h)

\* registry.downloadTarball settles for package p: on success the destination
\* is removed and re-created and tar.extract starts; a failure is caught and
\* reported on stderr
DownloadSettled(w, h, p, ok) ==
  IF ok THEN [w EXCEPT !.nodeModules[p] = 0, !.inst[h].st[p] = "ext"]
  ELSE BatchSettled([Emit(w, h, "stderr") EXCEPT !.inst[h].st[p] = "failed"], h)

\* tar.extract settles for package p: the files of the tarball of the resolved
\* version are written (and the bins linked), or the failure is caught
ExtractSettled(w, h, p, ok) ==
  IF ok THEN BatchSettled([Emit(w, h, "stdout") EXCEPT !.nodeModules[p] = RegVersion(p),
                                                         !.inst[h].st[p] = "ok"], h)
  ELSE BatchSettled([Emit(w, h, "stderr") EXCEPT !.inst[h].st[p] = "failed"], h)

\* The continuation of the exec handler's async block once the awaited call
\* has returned w.ret (or is still suspended)
Return(w, h) ==
  CASE w.ret \in {Suspended, Died} -> w
    [] w.ret = Thrown -> FinishError(w, h)
    [] w.cmd[h] = "run" -> ExecuteScriptString(w, h)
    [] OTHER -> Finish(w, h, w.ret)

\* The commands an exec frame can carry.  A run is a session of script, shell
\* and server commands or a session of npm install commands.
Cmd(c, script, end, parts, ok) ==
  [cmd |-> c, script |-> script, end |-> end, parts |-> parts, ok |-> ok]
InstallCommands ==
  {Cmd("install", ScriptNone, "", <<>>, TRUE), Cmd("installPkg", ScriptNone, "", <<1>>, TRUE)}
ScriptCommands ==
       {Cmd("node", s, "", <<>>, TRUE) : s \in Scripts}
  \cup {Cmd("eval", ScriptNone, e, <<>>, TRUE) : e \in EvalCodes}
  \cup {Cmd("sh", ScriptNone, "", <<>>, TRUE), Cmd("bad", ScriptNone, "", <<>>, TRUE)}
  \cup {Cmd("run", ScriptNone, "", ps, TRUE) :
          ps \in {<<NodePart(ScriptLong), ShPart(0)>>,
                  <<ShPart(1), NodePart(ScriptLong)>>}}
  \cup {Cmd("start", ScriptNone, "", <<>>, ok) : ok \in BOOLEAN}
Commands == IF session = "npm" THEN InstallCommands ELSE ScriptCommands

\* executeCommand / handleNpm
ExecuteCommand(w, h, c) ==
  CASE c.cmd = "sh"    -> [Emit(w, h, "stdout") EXCEPT !.ret = 0]
    [] c.cmd = "node"  -> RunFile(w, h, c.script)
    [] c.cmd = "eval"  -> RunEval(w, h, c.end)
    [] c.cmd = "run"   -> RunScript(w, h, c.parts)
    [] c.cmd = "start" -> DevServerStart(w, h, c.ok)
    [] c.cmd = "install" -> Install(w, h)
    [] c.cmd = "installPkg" -> InstallSpecific(w, h, c.parts)
    [] OTHER           -> [w EXCEPT !.ret = Thrown]

\* task.abort(): the flag, and the abort listeners, which run synchronously
AbortTask(w, t) ==
  LET w1 == [w EXCEPT !.aborted[t] = TRUE]
  IN IF w.pc[t] = "serving" THEN DevServerAbort(w1, t) ELSE w1

\* The microtask an abort listener queued: the awaiting call returns
Continue(w, t) ==
  CASE w.pc[t] = "serving" -> Return([w EXCEPT !.ret = 0], t)
    [] w.pc[t] = "await"   -> Return(RunFileReturn(w, t), t)
    [] OTHER               -> w

\* Variant of case 'kill' that lets the aborted task's continuation run before
\* the reply is sent
KillCaseReplyLast(w, id, processId) ==
  LET t == w.activeTasks[processId]
  IN IF t # NoTask
     THEN Send(Continue([AbortTask(w, t) EXCEPT !.activeTasks[processId] = NoTask], t),
               Frame(id, "killed", 0))
     ELSE Send(w, Frame(id, "error", 0))

\* Variant of case 'kill' that answers killed whether or not the entry exists
KillCaseAlwaysKilled(w, id, processId) ==
  LET t == w.activeTasks[processId]
  IN IF t # NoTask
     THEN Continue(Send([AbortTask(w, t) EXCEPT !.activeTasks[processId] = NoTask],
                        Frame(id, "killed", 0)), t)
     ELSE Send(w, Frame(id, "killed", 0))

\* case 'kill'
KillCase(w, id, processId) ==
  LET t == w.activeTasks[processId]
  IN IF t # NoTask
     THEN Continue(Send([AbortTask(w, t) EXCEPT !.activeTasks[processId] = NoTask],
                        Frame(id, "killed", 0)), t)
     ELSE Send(w, Frame(id, "error", 0))

\* The handlers that hold an entry of activeTasks
InMap(w) == {h \in Handlers : w.hid[h] # 0 /\ w.activeTasks[w.hid[h]] = h}

RECURSIVE AbortAll(_, _, _)
AbortAll(w, ts, h) ==
  IF h > MaxMsgs THEN w
  ELSE AbortAll(IF h \in ts THEN AbortTask(w, h) ELSE w, ts, h + 1)

RECURSIVE ContinueAll(_, _, _)
ContinueAll(w, ts, h) ==
  IF h > MaxMsgs THEN w
  ELSE ContinueAll(IF h \in ts THEN Continue(w, h) ELSE w, ts, h + 1)

\* Variant of the pause listener that aborts the entries but leaves the map
PauseCaseKeepMap(w) ==
  LET ts == InMap(w)
  IN ContinueAll(AbortAll(w, ts, 1), ts, 1)

\* The pause listener: abort every entry in insertion order, clear the map;
\* then the microtasks of the aborted tasks
PauseCase(w) ==
  LET ts == InMap(w)
      w1 == [AbortAll(w, ts, 1) EXCEPT !.activeTasks = [i \in Handlers |-> NoTask]]
  IN ContinueAll(w1, ts, 1)

\* -------------------------------------------------------------- semver ----
MaxEntries == 2   \* headers of a tar archive
MaxBlocks == 4   \* header blocks of a tar buffer
MaxParts == 3   \* commands of a script string
MaxTasks == 3   \* exec tasks that run a script command at the same time
MaxNames == 2   \* package names of a dependency graph
MaxStmts == 3   \* top-level statements of a module
MaxModules == 2   \* modules of a page
MaxSegs == 3   \* segments of a request path
MaxPolls == 1   \* /__poll requests of one run
MaxWaits == 2   \* poll intervals that pass without a timer of the server firing
StartMs == 1000   \* Date.now() when dev-server.js is loaded
HOLD_MS == 2000
WATCH_MS == 60000
POLL_INTERVAL == 2000
DEPTH_LIMIT == 50
MaxNum == 1   \* the numbers written in a version text are 0..MaxNum

\* parseInt of text that does not start with a digit
NaN == 0 - 9
\* null: the part of an X-range or partial version that is not written
Absent == 0 - 8

\* A prerelease identifier: numeric with its value, or alphanumeric; of an
\* alphanumeric one val is its rank in the lexical (code unit) order.
Ident(num, val) == [num |-> num, val |-> val]

\* The text of a version or partial version: an optional leading "v" or "=",
\* one to three dot-separated numbers, and the identifiers after a "-".
VText(lead, parts, pre) == [lead |-> lead, parts |-> parts, pre |-> pre]

Version(major, minor, patch, pre, partial) ==
  [major |-> major, minor |-> minor, patch |-> patch, prerelease |-> pre,
   partial |-> partial, valid |-> TRUE]

\* What parse returns for text that is not major.minor.patch[-prerelease]
NullVersion == [Version(NaN, NaN, NaN, <<>>, FALSE) EXCEPT !.valid = FALSE]

\* parse(version)
Parse(t) ==
  IF Len(t.parts) = 3
  THEN Version(t.parts[1], t.parts[2], t.parts[3], t.pre, FALSE)
  ELSE NullVersion

\* a !== b and a > b of JavaScript numbers
Neq(x, y) == x = NaN \/ y = NaN \/ x # y
Gt(x, y) == x # NaN /\ y # NaN /\ x > y

\* compare, the loop over the prerelease identifiers from index i
RECURSIVE ComparePre(_, _, _)
ComparePre(a, b, i) ==
  IF i > Len(a) /\ i > Len(b) THEN 0
  ELSE IF i > Len(a) THEN -1
  ELSE IF i > Len(b) THEN 1
  ELSE IF a[i].num /\ b[i].num
       THEN IF a[i].val # b[i].val THEN (IF a[i].val > b[i].val THEN 1 ELSE -1)
            ELSE ComparePre(a, b, i + 1)
  ELSE IF a[i].num THEN -1
  ELSE IF b[i].num THEN 1
  ELSE IF a[i].val < b[i].val THEN -1
  ELSE IF a[i].val > b[i].val THEN 1
  ELSE ComparePre(a, b, i + 1)

\* Variant of compare that puts a release below the prereleases of its triple
CompareReleaseLow(a, b) ==
  IF Neq(a.major, b.major) THEN (IF Gt(a.major, b.major) THEN 1 ELSE -1)
  ELSE IF Neq(a.minor, b.minor) THEN (IF Gt(a.minor, b.minor) THEN 1 ELSE -1)
  ELSE IF Neq(a.patch, b.patch) THEN (IF Gt(a.patch, b.patch) THEN 1 ELSE -1)
  ELSE IF a.prerelease = <<>> /\ b.prerelease # <<>> THEN -1
  ELSE IF a.prerelease # <<>> /\ b.prerelease = <<>> THEN 1
  ELSE IF a.prerelease = <<>> /\ b.prerelease = <<>> THEN 0
  ELSE ComparePre(a.prerelease, b.prerelease, 1)

\* compare(a, b)
Compare(a, b) ==
  IF Neq(a.major, b.major) THEN (IF Gt(a.major, b.major) THEN 1 ELSE -1)
  ELSE IF Neq(a.minor, b.minor) THEN (IF Gt(a.minor, b.minor) THEN 1 ELSE -1)
  ELSE IF Neq(a.patch, b.patch) THEN (IF Gt(a.patch, b.patch) THEN 1 ELSE -1)
  ELSE IF a.prerelease = <<>> /\ b.prerelease # <<>> THEN 1
  ELSE IF a.prerelease # <<>> /\ b.prerelease = <<>> THEN -1
  ELSE IF a.prerelease = <<>> /\ b.prerelease = <<>> THEN 0
  ELSE ComparePre(a.prerelease, b.prerelease, 1)

\* parsePartial(str): a full version as parse gives it; otherwise the numbers
\* that are there (parseInt of a part that starts with "v" or "=" is NaN, and
\* NaN || 0 is 0), no prerelease, and partial set
ParsePartial(t) ==
  IF Parse(t).valid THEN Parse(t)
  ELSE Version(IF t.lead = "" THEN t.parts[1] ELSE 0,
               IF Len(t.parts) >= 2 THEN t.parts[2] ELSE 0,
               0, <<>>, TRUE)

\* bump(v)
Bump(v) ==
  IF v.minor = 0 /\ v.patch = 0 THEN Version(v.major + 1, 0, 0, <<>>, FALSE)
  ELSE Version(v.major, v.minor + 1, 0, <<>>, FALSE)

\* The text of a range of one comparator set: "", "*", "latest", "^a", "~a",
\* "<op>a", "a - b", a bare version or partial version "a", a word without
\* and a word with one of the letters x, X, * (such as "beta" and "next").
RText(kind, op, a, b) == [kind |-> kind, op |-> op, a |-> a, b |-> b]

Comp(op, v) == [op |-> op, version |-> v]
Zero == Version(0, 0, 0, <<>>, FALSE)
AnyRange == <<<<Comp(">=", Zero)>>>>

\* parseRange, the X-range and partial branches for major maj and minor min
XRange(maj, min) ==
  IF min = Absent
  THEN <<Comp(">=", Version(maj, 0, 0, <<>>, FALSE)),
         Comp("<", Version(IF maj = NaN THEN NaN ELSE maj + 1, 0, 0, <<>>, FALSE))>>
  ELSE <<Comp(">=", Version(maj, min, 0, <<>>, FALSE)),
         Comp("<", Version(maj, min + 1, 0, <<>>, FALSE))>>

\* parseRange, the comparators of the one part of the range text
Comparators(r) ==
  CASE r.kind = "hyphen" ->
         LET high == ParsePartial(r.b)
         IN <<Comp(">=", ParsePartial(r.a)),
              Comp(IF high.partial THEN "<" ELSE "<=", IF high.partial THEN Bump(high) ELSE high)>>
    [] r.kind = "caret" ->
         LET v == ParsePartial(r.a)
         IN <<Comp(">=", v),
              Comp("<", IF v.major # 0 THEN Version(v.major + 1, 0, 0, <<>>, FALSE)
                        ELSE IF v.minor # 0 THEN Version(0, v.minor + 1, 0, <<>>, FALSE)
                        ELSE Version(0, 0, v.patch + 1, <<>>, FALSE))>>
    [] r.kind = "tilde" ->
         LET v == ParsePartial(r.a)
         IN <<Comp(">=", v), Comp("<", Version(v.major, v.minor + 1, 0, <<>>, FALSE))>>
    [] r.kind = "op" -> <<Comp(r.op, ParsePartial(r.a))>>
    [] r.kind = "wordx" -> XRange(NaN, Absent)
    [] r.kind = "plain" ->
         IF Parse(r.a).valid THEN <<Comp("=", Parse(r.a))>>
         ELSE IF r.a.lead = "" /\ r.a.pre = <<>>
         THEN XRange(r.a.parts[1], IF Len(r.a.parts) >= 2 THEN r.a.parts[2] ELSE Absent)
         ELSE <<>>
    [] OTHER -> <<>>

\* parseRange(rangeStr)
ParseRange(r) ==
  IF r.kind \in {"empty", "star", "latest"} THEN AnyRange
  ELSE IF Comparators(r) # <<>> THEN <<Comparators(r)>> ELSE AnyRange

\* Variant of testComp whose "<" admits the bound itself
TestCompInclusive(version, comp) ==
  LET c == Compare(version, comp.version)
  IN CASE comp.op = ">=" -> c >= 0
       [] comp.op = "<=" -> c <= 0
       [] comp.op = ">"  -> c > 0
       [] comp.op = "<"  -> c <= 0
       [] OTHER          -> c = 0

\* testComp(version, comp)
TestComp(version, comp) ==
  LET c == Compare(version, comp.version)
  IN CASE comp.op = ">=" -> c >= 0
       [] comp.op = "<=" -> c <= 0
       [] comp.op = ">"  -> c > 0
       [] comp.op = "<"  -> c < 0
       [] OTHER          -> c = 0

\* satisfies(versionStr, rangeStr)
Satisfies(t, r) ==
  /\ Parse(t).valid
  /\ \E i \in 1..Len(ParseRange(r)) :
       \A j \in 1..Len(ParseRange(r)[i]) : TestComp(Parse(t), ParseRange(r)[i][j])

\* Array.prototype.sort with the comparator compare(b.parsed, a.parsed): a
\* stable insertion of each element into the sorted rest
RECURSIVE InsertDesc(_, _)
InsertDesc(t, q) ==
  IF q = <<>> THEN <<t>>
  ELSE IF Compare(Parse(t), Parse(Head(q))) > 0 THEN <<t>> \o q
       ELSE <<Head(q)>> \o InsertDesc(t, Tail(q))

RECURSIVE SortDesc(_)
SortDesc(q) ==
  IF q = <<>> THEN <<>> ELSE InsertDesc(q[Len(q)], SortDesc(SubSeq(q, 1, Len(q) - 1)))

\* What maxSatisfying returns when nothing matches
NullText == VText("null", <<>>, <<>>)

\* maxSatisfying, the three filters: parsable, no prerelease, satisfies
RECURSIVE Matching(_, _)
Matching(versions, r) ==
  IF versions = <<>> THEN <<>>
  ELSE LET t == Head(versions)
       IN (IF Parse(t).valid /\ Parse(t).prerelease = <<>> /\ Satisfies(t, r)
           THEN <<t>> ELSE <<>>) \o Matching(Tail(versions), r)

\* Variant of maxSatisfying that does not sort the matching versions
MaxSatisfyingUnsorted(versions, r) ==
  IF Matching(versions, r) = <<>> THEN NullText
  ELSE Matching(versions, r)[1]

\* maxSatisfying(versions, rangeStr)
MaxSatisfying(versions, r) ==
  IF Matching(versions, r) = <<>> THEN NullText
  ELSE SortDesc(Matching(versions, r))[1]

\* ------------------------------------------------------- tar extract ----
\* A place in the file system: under the destination directory (out FALSE) or
\* under its parent directory (out TRUE), comps being the path from there
Loc(out, comps) == [out |-> out, comps |-> comps]
DestDir == Loc(FALSE, <<>>)
ParentDir == Loc(TRUE, <<>>)
Below(loc, c) == Loc(loc.out, Append(loc.comps, c))
Front(q) == SubSeq(q, 1, Len(q) - 1)
Up(loc) == IF loc.comps = <<>> THEN ParentDir ELSE Loc(loc.out, Front(loc.comps))

\* What extract has put at a place: a directory, a file, or a symlink with
\* the place its link name points to; by is the header that made it
Node(loc, kind, target, by) == [loc |-> loc, kind |-> kind, target |-> target, by |-> by]

\* A header of the archive: type flag '0', '5' or '2', the name (absolute or
\* not, its components between the slashes) and the link name
Entry(type, abs, comps, link) == [type |-> type, abs |-> abs, comps |-> comps, link |-> link]

\* For the loop over the header blocks: blocks are the 512-byte headers of
\* the buffer, each with the data that follows it; pos is offset; named holds
\* the real entries met so far with the name each was given; ended says that
\* the loop is over.
NoTar == [archive |-> <<>>, at |-> 1, made |-> {}, failed |-> FALSE,
          blocks |-> <<>>, pos |-> 1, paxPath |-> "", gnuLongName |-> "",
          named |-> <<>>, ended |-> FALSE]

\* A header block: an all-zero block ("zero"), a PAX header ("x", name being
\* the path record of its data, "" without one), a global PAX header ("g"),
\* a GNU long name ("L", name being its data), or a real entry ("0") with
\* the name written in the header
Header(kind, name) == [kind |-> kind, name |-> name]

\* extract, one turn of the while loop over the headers
HeaderLoop(t) ==
  IF t.pos > Len(t.blocks) THEN [t EXCEPT !.ended = TRUE]
  ELSE LET header == t.blocks[t.pos]
           next   == [t EXCEPT !.pos = @ + 1]
       IN CASE header.kind = "zero" -> [t EXCEPT !.ended = TRUE]
            [] header.kind = "x" ->
                 IF header.name # "" THEN [next EXCEPT !.paxPath = header.name]
                 ELSE next
            [] header.kind = "g" -> next
            [] header.kind = "L" -> [next EXCEPT !.gnuLongName = header.name]
            [] OTHER ->
                 IF t.paxPath # ""
                 THEN [next EXCEPT !.named = Append(@, [at |-> t.pos, name |-> t.paxPath]),
                                   !.paxPath = ""]
                 ELSE IF t.gnuLongName # ""
                 THEN [next EXCEPT !.named = Append(@, [at |-> t.pos, name |-> t.gnuLongName]),
                                   !.gnuLongName = ""]
                 ELSE [next EXCEPT !.named = Append(@, [at |-> t.pos, name |-> header.name])]

KindAt(fs, loc) ==
  IF loc.comps = <<>> THEN "dir"
  ELSE IF \E n \in fs : n.loc = loc THEN (CHOOSE n \in fs : n.loc = loc).kind
  ELSE "none"
TargetAt(fs, loc) == (CHOOSE n \in fs : n.loc = loc).target

\* The place a link name written in directory dir points to: "package" is
\* the entry of that name in dir, ".." is the directory above dir
LinkTarget(dir, link) == IF link = ".." THEN Up(dir) ELSE Below(dir, link)

\* fs.mkdirSync(dir, { recursive: true }) from directory loc down the
\* components comps: a missing directory is made, a symlink is followed, a
\* file in the way or a symlink that leads nowhere makes the call throw.
\* hops bounds the symlinks followed (ELOOP).
RECURSIVE MkdirP(_, _, _, _, _)
MkdirP(fs, loc, comps, hops, by) ==
  IF comps = <<>> THEN [ok |-> TRUE, loc |-> loc, fs |-> fs]
  ELSE LET next == Below(loc, Head(comps))
           k    == KindAt(fs, next)
       IN CASE k = "dir"  -> MkdirP(fs, next, Tail(comps), hops, by)
            [] k = "none" -> MkdirP(fs \cup {Node(next, "dir", next, by)}, next, Tail(comps), hops, by)
            [] k = "link" ->
                 LET t == TargetAt(fs, next)
                 IN IF hops = 0 \/ KindAt(fs, t) \in {"none", "file"}
                    THEN [ok |-> FALSE, loc |-> next, fs |-> fs]
                    ELSE IF KindAt(fs, t) = "dir"
                    THEN MkdirP(fs, t, Tail(comps), hops - 1, by)
                    ELSE MkdirP(fs, Up(t), <<t.comps[Len(t.comps)]>> \o Tail(comps), hops - 1, by)
            [] OTHER -> [ok |-> FALSE, loc |-> next, fs |-> fs]

\* fs.writeFileSync(loc): a symlink at loc is followed, a directory there
\* makes the call throw
RECURSIVE WriteFile(_, _, _, _)
WriteFile(fs, loc, hops, by) ==
  LET k == KindAt(fs, loc)
  IN CASE k = "none" -> [ok |-> TRUE, fs |-> fs \cup {Node(loc, "file", loc, by)}]
       [] k = "file" -> [ok |-> TRUE, fs |-> {n \in fs : n.loc # loc} \cup {Node(loc, "file", loc, by)}]
       [] k = "link" /\ hops > 0 -> WriteFile(fs, TargetAt(fs, loc), hops - 1, by)
       [] OTHER -> [ok |-> FALSE, fs |-> fs]

Links(fs) == Cardinality({n \in fs : n.kind = "link"})

\* extract, the path of an entry below the destination: the name from behind
\* its first slash, the whole name when it has none
RelativePath(e) ==
  IF e.abs THEN e.comps
  ELSE IF Len(e.comps) >= 2 THEN Tail(e.comps)
  ELSE e.comps

\* extract, the body of the loop for the header at t.at
Extract(t) ==
  LET e    == t.archive[t.at]
      rel  == RelativePath(e)
      skip == [t EXCEPT !.at = @ + 1]
      dir  == MkdirP(t.made, DestDir, Front(rel), Links(t.made), t.at)
      full == Below(dir.loc, rel[Len(rel)])
      threw == [t EXCEPT !.failed = TRUE, !.made = dir.fs]
  IN IF \E i \in 1..Len(rel) : rel[i] = ".." THEN skip
     ELSE CASE e.type = "5" ->
                 LET d == MkdirP(t.made, DestDir, rel, Links(t.made), t.at)
                 IN IF d.ok THEN [skip EXCEPT !.made = d.fs]
                    ELSE [t EXCEPT !.failed = TRUE, !.made = d.fs]
            [] e.type = "2" ->
                 IF ~dir.ok THEN threw
                 ELSE IF KindAt(dir.fs, full) # "none" THEN [skip EXCEPT !.made = dir.fs]
                 ELSE [skip EXCEPT !.made = dir.fs \cup
                         {Node(full, "link", LinkTarget(dir.loc, e.link), t.at)}]
            [] OTHER ->
                 IF ~dir.ok THEN threw
                 ELSE LET f == WriteFile(dir.fs, full, Links(dir.fs), t.at)
                      IN IF f.ok THEN [skip EXCEPT !.made = f.fs]
                         ELSE [threw EXCEPT !.made = f.fs]

\* The names and headers of the archives extract is given
TarNames ==
  {<<a>> : a \in {"package", "l", ".."}}
    \cup {<<a, b>> : a \in {"package", "l", ".."}, b \in {"package", "l", ".."}}
    \cup {<<"package", b, c>> : b \in {"package", "l", ".."}, c \in {"l", ".."}}
Entries ==
  {Entry(ty, abs, n, "") : ty \in {"0", "5"}, abs \in BOOLEAN, n \in TarNames}
    \cup {Entry("2", abs, n, ln) : abs \in BOOLEAN, n \in TarNames, ln \in {"package", ".."}}

\* The calls of the semver functions under study.  A call is one of
\*   compare(parse(a), parse(b)), satisfies(a, r), maxSatisfying(list, r);
\* done says whether it has been made, cmp / sat / max hold what it returned.
\* For the resolver: the demands (ranges) still to come for one package
\* name, the one dist-tag of its packument, whose versions are list, and the
\* entry of the name in the resolved map (empty, or one entry with the
\* version and the range it was added under).
\* For the walk over a dependency graph: graph gives the dependencies of each
\* name, calls the calls of resolveDep still to run and the finally blocks
\* still to come, resolving the set of that name, names the names in the
\* order resolved.set was called for them.
NoText == VText("", <<>>, <<>>)
NoRange == RText("none", "", NoText, NoText)
SemCall(case, a, b, r, list) ==
  [case |-> case, a |-> a, b |-> b, r |-> r, list |-> list, done |-> FALSE,
   cmp |-> <<0, 0>>, sat |-> FALSE, max |-> NullText,
   demands |-> <<>>, tag |-> [name |-> "none", version |-> NullText], map |-> <<>>,
   graph |-> <<>>, calls |-> <<>>, resolving |-> {}, names |-> <<>>]
NoSem == SemCall("none", NoText, NoText, NoRange, <<>>)

I0 == Ident(TRUE, 0)
I1 == Ident(TRUE, 1)
Ia == Ident(FALSE, 0)
Ib == Ident(FALSE, 1)

\* major.minor.patch with every number in 0..n
Cores(n) == {<<x, y, z>> : x \in 0..n, y \in 0..n, z \in 0..n}

\* The versions compare is called with
CmpTexts ==
  {VText("", c, p) : c \in Cores(MaxNum),
                     p \in {<<>>, <<I0>>, <<I1>>, <<Ia>>, <<Ib>>, <<Ia, I0>>, <<Ia, Ib>>}}
CmpVersions == {Parse(t) : t \in CmpTexts}

\* The versions satisfies is called with: releases and prereleases
SatTexts == {VText("", c, p) : c \in Cores(MaxNum + 1), p \in {<<>>, <<Ia>>}}

\* The versions and partial versions written in ranges: X.Y.Z, X.Y and X
FullTexts == {VText("", c, <<>>) : c \in Cores(MaxNum)}
PartialTexts ==
  {VText("", <<x>>, <<>>) : x \in 0..MaxNum}
    \cup {VText("", <<x, y>>, <<>>) : x \in 0..MaxNum, y \in 0..MaxNum}

\* The ranges satisfies is called with; none mentions a prerelease
Ranges ==
  {RText(k, "", NoText, NoText) : k \in {"empty", "star", "latest", "word", "wordx"}}
    \cup {RText(k, "", a, NoText) : k \in {"caret", "tilde", "plain"},
                                    a \in FullTexts \cup PartialTexts}
    \cup {RText("op", o, a, NoText) : o \in {">=", "<=", ">", "<", "="}, a \in FullTexts}
    \cup {RText("hyphen", "", a, b) : a \in FullTexts, b \in FullTexts \cup PartialTexts}

\* The version lists maxSatisfying is called with, and the ranges
MaxTexts ==
  {VText("", <<x, y, 0>>, p) : x \in 0..MaxNum, y \in 0..MaxNum, p \in {<<>>, <<Ia>>}}
    \cup {VText("v", <<1, 0, 0>>, <<>>), VText("", <<1>>, <<>>)}
MaxRanges ==
  {RText("op", ">=", a, NoText) : a \in {t \in MaxTexts : Parse(t).valid}}
    \cup {RText("star", "", NoText, NoText), RText("op", "<", VText("", <<0, 0, 0>>, <<>>), NoText)}

\* ---------------------------------------------------------- dev server ----

\* The paths readProjectFiles can find in the project root, in the order
\* readdirSync lists them
ProjectPaths ==
  << "/App.js", "/App.jsx", "/App.ts", "/App.tsx", "/index.js", "/index.jsx",
     "/index.ts", "/index.tsx", "/main.js", "/style.css" >>

NoPath == ""

\* fileList of buildHTML for a project holding the paths of S
FileListOf(S) == SelectSeq(ProjectPaths, LAMBDA p : p \in S)

Includes(list, p) == \E i \in 1..Len(list) : list[i] = p

EntryFile(fileList) ==
  IF Includes(fileList, "/index.js") THEN "/index.js"
  ELSE IF Includes(fileList, "/index.jsx") THEN "/index.jsx"
  ELSE IF Includes(fileList, "/index.tsx") THEN "/index.tsx"
  ELSE NoPath

AppFile(fileList) ==
  IF Includes(fileList, "/App.js") THEN "/App.js"
  ELSE IF Includes(fileList, "/App.jsx") THEN "/App.jsx"
  ELSE IF Includes(fileList, "/App.tsx") THEN "/App.tsx"
  ELSE IF fileList # <<>> THEN fileList[1]
  ELSE NoPath

\* entryScript: the entry is required, or it is required and what it exports
\* is rendered into the root, or there is only the message
EntryScript(fileList) ==
  IF EntryFile(fileList) # NoPath
    THEN [kind |-> "require", file |-> EntryFile(fileList)]
    ELSE IF AppFile(fileList) # NoPath
      THEN [kind |-> "render", file |-> AppFile(fileList)]
      ELSE [kind |-> "message", file |-> NoPath]

NoEntry == [kind |-> "none", file |-> NoPath]

\* The top-level statements of a module, each with the name it declares or
\* exports and whether its text begins at the start of a line:
\*   "exportDefaultFunction"  export default function F ...
\*   "exportDefault"          export default F
\*   "exportFunction"         export function X ...
\*   "exportConst"            export const X = ...
\*   "function"               function G ...
\*   "setProp"                module.exports.X = X
\*   "mention"                a comment that holds the text module.exports
\* and after the rewrite also
\*   "assign"                 module.exports = F
\*   "decl"                   const X = ...
Stmt(kind, name, bol) == [kind |-> kind, name |-> name, bol |-> bol]

MapStmts(code, from, to) ==
  [i \in DOMAIN code |->
     IF code[i].kind = from THEN [code[i] EXCEPT !.kind = to] ELSE code[i]]

\* /^function\s+(\w+)/m: the first function declaration that begins a line
DefaultFnMatch(code) ==
  LET hits == {i \in DOMAIN code : code[i].kind = "function" /\ code[i].bol}
  IN  IF hits = {} THEN 0 ELSE CHOOSE i \in hits : \A j \in hits : i <= j

\* code.includes('module.exports')
IncludesModuleExports(code) ==
  \E i \in DOMAIN code : code[i].kind \in {"assign", "setProp", "mention"}

AppendDefault(code) ==
  IF DefaultFnMatch(code) # 0 /\ ~IncludesModuleExports(code)
    THEN Append(code, Stmt("assign", code[DefaultFnMatch(code)].name, TRUE))
    ELSE code

\* The export half of transformModules, one replace after the other
TransformModules(code) ==
  LET c1 == MapStmts(code, "exportDefaultFunction", "function")
      c2 == MapStmts(c1, "exportDefault", "assign")
      c3 == AppendDefault(c2)
      c4 == MapStmts(c3, "exportFunction", "function")
  IN  MapStmts(c4, "exportConst", "decl")

\* module = { exports: {} }: the value exports holds ("" while it is the
\* object the loader made) and the properties written on it
EmptyExports == [value |-> "", props |-> {}]

RECURSIVE RunModule(_, _)
RunModule(code, module) ==
  IF code = <<>> THEN module
  ELSE LET st == Head(code)
       IN  RunModule(Tail(code),
             CASE st.kind = "assign" -> [value |-> st.name, props |-> {}]
               [] st.kind = "setProp" -> [module EXCEPT !.props = @ \cup {st.name}]
               [] OTHER -> module)

\* __require of a module that is not cached yet
Require(code) == RunModule(code, EmptyExports)

PollChangedOrSame(lastModTime, since) == lastModTime >= since

\* lastModTime > since, of the /__poll handler
PollChanged(lastModTime, since) == lastModTime > since

\* One /__poll request: the since it carries (0 when the url has none), when
\* it arrived, when its hold ends, the responses written so far and the
\* changed of the response; mtime is when a project file was last written
\* as the request arrived.
PollCase(d, since) ==
  IF PollChanged(d.lastModTime, since)
    THEN [since |-> since, at |-> d.now, due |-> d.now, answers |-> 1,
          changed |-> TRUE, mtime |-> d.mtime]
    ELSE [since |-> since, at |-> d.now, due |-> d.now + HOLD_MS, answers |-> 0,
          changed |-> FALSE, mtime |-> d.mtime]

\* The callback of the hold timer
PollHeld(d, i) ==
  [d EXCEPT !.polls[i].answers = @ + 1,
            !.polls[i].changed = PollChanged(d.lastModTime, d.polls[i].since)]

\* A project file is written: the callback of fs.watch runs while the
\* watcher is there
WatchCallback(d) ==
  [d EXCEPT !.mtime = d.now,
            !.lastModTime = IF d.watcher = "open" THEN d.now ELSE @]

\* The times at which a timer of the server is to fire
PendingDue(d) ==
  {d.polls[i].due : i \in {j \in DOMAIN d.polls : d.polls[j].answers = 0}}
    \cup (IF d.watcher = "open" THEN {d.closeAt} ELSE {})

\* ------------------------------------------------------- page loader ----

\* One step the loader has still to take: the call __require(key), or the
\* end of the body of the module function of key
LoaderFrame(op, key) == [op |-> op, key |-> key]

\* The calls of __require a module function makes, in the order of its body
RequiresOf(d, key) ==
  [i \in 1..Cardinality(d.moduleCode[key].requires) |->
     LoaderFrame("require", SortedSeq(d.moduleCode[key].requires)[i])]

\* Variant of __require that drops the cache entry of a module whose
\* function threw
LoaderRequireForgetful(d) ==
  LET f == Head(d.frames)
  IN IF f.op = "require"
     THEN IF f.key \in d.moduleCache
          THEN [d EXCEPT !.frames = Tail(@),
                         !.partial = IF f.key \in d.finished THEN @
                                     ELSE @ \cup {f.key}]
          ELSE [d EXCEPT !.moduleCache = @ \cup {f.key},
                         !.invoked[f.key] = @ + 1,
                         !.frames = RequiresOf(d, f.key)
                                      \o <<LoaderFrame("return", f.key)>>
                                      \o Tail(@)]
     ELSE IF d.moduleCode[f.key].throws
          THEN [d EXCEPT !.frames = <<>>, !.thrown = @ \cup {f.key},
                         !.moduleCache = @ \ {f.key}]
          ELSE [d EXCEPT !.frames = Tail(@), !.finished = @ \cup {f.key}]

\* __require of the page: a module in __moduleCache gives its exports as
\* they are; any other module is put in the cache and then its function
\* runs; an error of the function leaves every caller (each catch block
\* throws it again) and the cache entry stays
LoaderRequire(d) ==
  LET f == Head(d.frames)
  IN IF f.op = "require"
     THEN IF f.key \in d.moduleCache
          THEN [d EXCEPT !.frames = Tail(@),
                         !.partial = IF f.key \in d.finished THEN @
                                     ELSE @ \cup {f.key}]
          ELSE [d EXCEPT !.moduleCache = @ \cup {f.key},
                         !.invoked[f.key] = @ + 1,
                         !.frames = RequiresOf(d, f.key)
                                      \o <<LoaderFrame("return", f.key)>>
                                      \o Tail(@)]
     ELSE IF d.moduleCode[f.key].throws
          THEN [d EXCEPT !.frames = <<>>, !.thrown = @ \cup {f.key}]
          ELSE [d EXCEPT !.frames = Tail(@), !.finished = @ \cup {f.key}]

\* ---------------------------------------------------- static endpoint ----

\* path.join of two paths given by their segments: a '..' segment takes the
\* segment before it away, and nothing at the root
RECURSIVE Normalize(_, _)
Normalize(done, rest) ==
  IF rest = <<>> THEN done
  ELSE IF Head(rest) = ".."
       THEN Normalize(IF done = <<>> THEN <<>> ELSE SubSeq(done, 1, Len(done) - 1),
                      Tail(rest))
       ELSE Normalize(Append(done, Head(rest)), Tail(rest))

PathJoin(dir, url) == Normalize(<<>>, dir \o url)

\* Nothing was sent yet
NoReply == [status |-> 0, file |-> <<>>]

\* The request handler for a path that is neither the page nor /__poll: the
\* file at path.join(projectDir, url) is read and sent if it is a file
ServeStatic(d, url) ==
  LET filePath == PathJoin(d.projectDir, url)
  IN [d EXCEPT !.url = url,
               !.reply = IF filePath \in d.files
                         THEN [status |-> 200, file |-> filePath]
                         ELSE [status |-> 404, file |-> <<>>]]

\* The dev server under study: the project it serves and the page it built,
\* the module it rewrites and what the loader gets from running it
DevCase(case) ==
  [case |-> case, done |-> FALSE, fileList |-> <<>>, entryScript |-> NoEntry,
   source |-> <<>>, code |-> <<>>, exports |-> EmptyExports,
   now |-> 0, lastModTime |-> 0, mtime |-> 0, watcher |-> "none", closeAt |-> 0,
   serving |-> FALSE, polls |-> <<>>, waits |-> 0,
   moduleCode |-> <<>>, moduleCache |-> {}, frames |-> <<>>, top |-> <<>>,
   invoked |-> <<>>, finished |-> {}, thrown |-> {}, partial |-> {},
   projectDir |-> <<>>, files |-> {}, url |-> <<>>, reply |-> NoReply]

NoDev == DevCase("none")


\* ------------------------------------------------------ script commands ----

\* One command of a script string: the arguments written after its name
Part(args) == [args |-> args]

\* A path, a name or the content of a file is the sequence of its pieces:
\* characters, and whole words where nothing of interest can begin or end
\* inside them.

\* content.includes(name)
Contains(content, name) ==
  \E i \in 0..(Len(content) - Len(name)) :
    SubSeq(content, i + 1, i + Len(name)) = name

\* pkgDir(nmDir, name) for nmDir = path.join(cwd, 'node_modules')
PkgDir(cwd, name) == cwd \o <<"/", "node_modules", "/">> \o name

\* packageName.split('/').pop()
RECURSIVE Unscoped(_)
Unscoped(name) ==
  IF \E i \in DOMAIN name : name[i] = "/"
    THEN Unscoped(Tail(name))
    ELSE name

\* The bin of a package: a string, or an object with one name
BinString(path) == [kind |-> "string", name |-> <<>>, path |-> path]
BinObject(name, path) == [kind |-> "object", name |-> name, path |-> path]

\* target.replace(/\\/g, '/')
Slashes(target) ==
  [i \in DOMAIN target |-> IF target[i] = "\\" THEN "/" ELSE target[i]]

\* The content linkBins writes into a stub: "#!/usr/bin/env node\nrequire('",
\* the target, "');\n"
StubContent(target) == <<"#!/usr/bin/env node\nrequire('">> \o Slashes(target) \o <<"');\n">>

\* content.match(/require\(['"](.+?)['"]\)/)[1] for the content of a stub
RECURSIVE ReqMatch(_)
ReqMatch(content) ==
  IF content = <<>> \/ Head(content) = "');\n" THEN <<>>
  ELSE IF Head(content) = "#!/usr/bin/env node\nrequire('" THEN ReqMatch(Tail(content))
  ELSE <<Head(content)>> \o ReqMatch(Tail(content))

\* linkBins(packageName, bin, packageDir, binDir): the stub of that name is
\* written, over the one that is there; by says which package wrote it
LinkBins(n, pkg) ==
  LET name   == IF pkg.bin.kind = "string" THEN Unscoped(pkg.name) ELSE pkg.bin.name
      target == PkgDir(n.cwd, pkg.name) \o <<"/">> \o pkg.bin.path
  IN [n EXCEPT !.dirs = @ \cup {pkg.name},
               !.linked = @ \cup {pkg.name},
               !.stubs = {st \in @ : st.name # name}
                           \cup {[name |-> name, content |-> StubContent(target),
                                  by |-> pkg.name]}]

\* runBin(binName): the file handed to runFile, <<>> when there is no stub
NoRun == [bin |-> <<>>, file |-> <<>>]
RunBin(n, binName) ==
  IF \E st \in n.stubs : st.name = binName
    THEN [bin |-> binName,
          file |-> ReqMatch((CHOOSE st \in n.stubs : st.name = binName).content)]
    ELSE [bin |-> binName, file |-> <<>>]

\* removePackage(name, cwd)
RemovePackage(n, name) ==
  [n EXCEPT !.dirs = @ \ {name},
            !.stubs = {st \in @ : ~Contains(st.content, name)}]

\* For the bin stubs: cwd is the project path, packages the packages the
\* install resolved (name and bin), linked the names of those that have been
\* extracted and linked, dirs the names with a directory in node_modules, stubs the files of node_modules/.bin, ran the last runBin.
\* For the KEY=VALUE prefix of commands: env is process.env[KEY] ("" when
\* the variable is not set), before its value when nothing had run,
\* running[t] whether the executeSingle call of task t is between its entry
\* and its finally block ("idle", "running", "returned"), saved[t] the saved
\* object of that call ("none" when the command has no prefix).
\* npm-lite under study.  For a script string: its parts, the arguments
\* given to npm run, the extraArgs of the loop, the index of the part the
\* loop is at, what each command run so far was called with, and the code
\* returned.
NpmCase(case) ==
  [case |-> case, parts |-> <<>>, args |-> <<>>, extraArgs |-> <<>>, at |-> 1,
   calls |-> <<>>, code |-> 0, done |-> FALSE,
   env |-> "", before |-> "", saved |-> <<>>, running |-> <<>>,
   cwd |-> <<>>, packages |-> {}, linked |-> {}, dirs |-> {}, stubs |-> {},
   ran |-> NoRun]

NoNpm == NpmCase("none")

\* executeSingle: const args = [...tokens.slice(start + 1), ...extraArgs]
CommandArgs(part, extraArgs) == part.args \o extraArgs

\* executeSingle up to its await: the variable is saved and set
ApplyEnv(n, t, v) ==
  IF v = "" THEN [n EXCEPT !.running[t] = "running"]
  ELSE [n EXCEPT !.saved[t] = n.env, !.env = v, !.running[t] = "running"]

\* executeSingle, the finally block: a saved undefined deletes the variable
RestoreEnv(n, t) ==
  IF n.saved[t] = "none" THEN [n EXCEPT !.running[t] = "returned"]
  ELSE [n EXCEPT !.env = n.saved[t], !.saved[t] = "none", !.running[t] = "returned"]

\* executeScriptString, one turn of the loop over the parts: the command
\* runs and returns code; a non-zero code ends the loop; extraArgs = []
ScriptLoop(n, code) ==
  LET called == [n EXCEPT !.calls = Append(@, CommandArgs(n.parts[n.at], n.extraArgs)),
                          !.code = code]
  IN IF code # 0 THEN [called EXCEPT !.done = TRUE]
     ELSE [called EXCEPT !.extraArgs = <<>>, !.at = @ + 1,
                         !.done = (n.at = Len(n.parts))]

\* ------------------------------------------------------------ actions ----
Commit(w) ==
  /\ alive' = w.alive
  /\ activeTasks' = w.activeTasks
  /\ aborted' = w.aborted
  /\ pc' = w.pc
  /\ chain' = w.chain
  /\ globals' = w.globals
  /\ saved' = w.saved
  /\ timer' = w.timer
  /\ sent' = w.sent
  /\ cmd' = w.cmd
  /\ inst' = w.inst
  /\ packumentCache' = w.packumentCache
  /\ pkgJson' = w.pkgJson
  /\ nodeModules' = w.nodeModules
  /\ lockfile' = w.lockfile

InitRuntime ==
  /\ alive = TRUE
  /\ nmsg = 0 /\ npause = 0 /\ ticks = 0
  /\ req = [h \in Handlers |-> NoReq]
  /\ activeTasks = [i \in Handlers |-> NoTask]
  /\ aborted = [h \in Handlers |-> FALSE]
  /\ pc = [h \in Handlers |-> "none"]
  /\ chain = [h \in Handlers |-> <<>>]
  /\ globals = Orig
  /\ saved = [h \in Handlers |-> Orig]
  /\ timer = FALSE
  /\ sent = <<>>
  /\ paused = {}
  /\ cmd = [h \in Handlers |-> ""]
  /\ inst = [h \in Handlers |-> NoInst]
  /\ packumentCache = {}
  /\ nodeModules = [p \in Pkgs |-> 0]
  /\ lockfile = [exists |-> FALSE, deps |-> <<>>]

InitCore ==
  /\ InitRuntime
  /\ npm = NoNpm
  /\ dev = NoDev
  /\ sem = NoSem
  /\ tar = NoTar

\* A project without package.json, or one that depends on package 1
Init ==
  /\ InitCore
  /\ session \in {"scripts", "npm"}
  /\ pkgJson \in {[exists |-> FALSE, deps |-> <<>>], [exists |-> TRUE, deps |-> <<1>>]}

\* A project that depends on packages 2..NPkgs (and so, through 2, on 1)
InitInstall ==
  /\ InitCore
  /\ session = "npm"
  /\ pkgJson = [exists |-> TRUE, deps |-> [i \in 1..(NPkgs - 1) |-> i + 1]]

\* An exec frame arrives: the client numbers its requests 1, 2, ...
Exec(c) ==
  /\ alive /\ nmsg < MaxMsgs
  /\ LET h  == nmsg + 1
         w0 == [World EXCEPT !.hid[h] = h, !.cmd[h] = c.cmd, !.activeTasks[h] = h]
     IN /\ req' = [req EXCEPT ![h] = [type |-> "exec", id |-> h, processId |-> 0]]
        /\ Commit(Return(ExecuteCommand(w0, h, c), h))
  /\ nmsg' = nmsg + 1
  /\ UNCHANGED <<sem, tar, dev, npm, session, npause, ticks, paused>>

\* A kill frame arrives
Kill(processId) ==
  /\ alive /\ nmsg < MaxMsgs
  /\ LET k == nmsg + 1
     IN /\ req' = [req EXCEPT ![k] = [type |-> "kill", id |-> k, processId |-> processId]]
        /\ Commit(KillCase([World EXCEPT !.hid[k] = k], k, processId))
  /\ nmsg' = nmsg + 1
  /\ UNCHANGED <<sem, tar, dev, npm, session, npause, ticks, paused>>

\* The app is paused
Pause ==
  /\ alive /\ npause < MaxPauses
  /\ Commit(PauseCase(World))
  /\ paused' = paused \cup InMap(World)
  /\ npause' = npause + 1
  /\ UNCHANGED <<sem, tar, dev, npm, session, nmsg, ticks, req>>

\* The setImmediate of runFile's await fires (the abort listener clears it)
Immediate(h) ==
  /\ alive /\ pc[h] = "await" /\ ~aborted[h]
  /\ Commit(Return(RunFileReturn(World, h), h))
  /\ UNCHANGED <<sem, tar, dev, npm, session, nmsg, npause, ticks, req, paused>>

\* A timer of a user script fires and its callback calls console.log
TimerTick ==
  /\ alive /\ timer /\ ticks < MaxTicks
  /\ Commit(ConsoleWrite(World, "log", "stdout"))
  /\ ticks' = ticks + 1
  /\ UNCHANGED <<sem, tar, dev, npm, session, nmsg, npause, req, paused>>

\* The packument request of install handler h settles
FetchDone(h, ok) ==
  /\ alive /\ pc[h] = "fetch"
  /\ Commit(Return(FetchSettled(World, h, ok), h))
  /\ UNCHANGED <<sem, tar, dev, npm, session, nmsg, npause, ticks, req, paused>>

\* A tarball download of install handler h settles
DownloadDone(h, p, ok) ==
  /\ alive /\ pc[h] = "batch" /\ inst[h].st[p] = "dl"
  /\ Commit(Return(DownloadSettled(World, h, p, ok), h))
  /\ UNCHANGED <<sem, tar, dev, npm, session, nmsg, npause, ticks, req, paused>>

\* An extraction of install handler h settles
ExtractDone(h, p, ok) ==
  /\ alive /\ pc[h] = "batch" /\ inst[h].st[p] = "ext"
  /\ Commit(Return(ExtractSettled(World, h, p, ok), h))
  /\ UNCHANGED <<sem, tar, dev, npm, session, nmsg, npause, ticks, req, paused>>

Next ==
  \/ \E c \in Commands : Exec(c)
  \/ \E p \in Handlers : Kill(p)
  \/ Pause
  \/ \E h \in Handlers : Immediate(h)
  \/ TimerTick
  \/ \E h \in Handlers, ok \in BOOLEAN : FetchDone(h, ok)
  \/ \E h \in Handlers, p \in Pkgs, ok \in BOOLEAN : DownloadDone(h, p, ok)
  \/ \E h \in Handlers, p \in Pkgs, ok \in BOOLEAN : ExtractDone(h, p, ok)

Spec == Init /\ [][Next]_vars

\* One install at a time in the project with NPkgs packages, the registry
\* answering every packument request
ExecInstall ==
  /\ \A h \in Handlers : pc[h] \in {"none", "done"}
  /\ Exec(Cmd("install", ScriptNone, "", <<>>, TRUE))

NextInstall ==
  \/ ExecInstall
  \/ \E p \in Handlers : Kill(p)
  \/ Pause
  \/ \E h \in Handlers : FetchDone(h, TRUE)
  \/ \E h \in Handlers, p \in Pkgs, ok \in BOOLEAN : DownloadDone(h, p, ok)
  \/ \E h \in Handlers, p \in Pkgs, ok \in BOOLEAN : ExtractDone(h, p, ok)

SpecInstall == InitInstall /\ [][NextInstall]_vars

\* An exec frame whose id is chosen by the sender, the id of a task that is
\* still running included
ExecAs(c, id) ==
  /\ alive /\ nmsg < MaxMsgs
  /\ LET h  == nmsg + 1
         w0 == [World EXCEPT !.hid[h] = id, !.cmd[h] = c.cmd, !.activeTasks[id] = h]
     IN /\ req' = [req EXCEPT ![h] = [type |-> "exec", id |-> id, processId |-> 0]]
        /\ Commit(Return(ExecuteCommand(w0, h, c), h))
  /\ nmsg' = nmsg + 1
  /\ UNCHANGED <<sem, tar, dev, npm, session, npause, ticks, paused>>

\* Script and server tasks whose exec frames may reuse an id
InitReuse ==
  /\ InitCore
  /\ session = "scripts"
  /\ pkgJson = [exists |-> TRUE, deps |-> <<>>]

NextReuse ==
  \/ \E c \in ScriptCommands, id \in Handlers : ExecAs(c, id)
  \/ \E p \in Handlers : Kill(p)
  \/ Pause
  \/ \E h \in Handlers : Immediate(h)
  \/ TimerTick

SpecReuse == InitReuse /\ [][NextReuse]_vars

\* One npm install in the project with NPkgs packages, and kill frames: the
\* install is the first frame of the run, the registry answers every
\* packument request
ExecFirstInstall ==
  /\ nmsg = 0
  /\ Exec(Cmd("install", ScriptNone, "", <<>>, TRUE))

NextBatch ==
  \/ ExecFirstInstall
  \/ \E p \in Handlers : Kill(p)
  \/ \E h \in Handlers : FetchDone(h, TRUE)
  \/ \E h \in Handlers, p \in Pkgs, ok \in BOOLEAN : DownloadDone(h, p, ok)
  \/ \E h \in Handlers, p \in Pkgs, ok \in BOOLEAN : ExtractDone(h, p, ok)

SpecBatch == InitInstall /\ [][NextBatch]_vars

\* npm install run again and again in a project that depends on packages 2
\* and 3 (and so, through 2, on 1), one install at a time, every registry
\* request and every extraction free to fail
InitReinstall ==
  /\ InitCore
  /\ session = "npm"
  /\ pkgJson = [exists |-> TRUE, deps |-> <<2, 3>>]

NextReinstall ==
  \/ ExecInstall
  \/ \E h \in Handlers, ok \in BOOLEAN : FetchDone(h, ok)
  \/ \E h \in Handlers, p \in Pkgs, ok \in BOOLEAN : DownloadDone(h, p, ok)
  \/ \E h \in Handlers, p \in Pkgs, ok \in BOOLEAN : ExtractDone(h, p, ok)

SpecReinstall == InitReinstall /\ [][NextReinstall]_vars

\* resolveDep(name, range, resolved, ...) for the name the demands are about,
\* its packument cached: an entry that is there is kept (satisfies only
\* decides about the warning); otherwise the range is replaced by the version
\* of the dist-tag of that name, if there is one, and the entry is the
\* maxSatisfying version, if there is one
ResolveDep(c, range) ==
  IF c.map # <<>> THEN c.map
  ELSE LET effectiveRange ==
             IF range.kind = c.tag.name THEN RText("plain", "", c.tag.version, NoText)
             ELSE range
           bestVersion == MaxSatisfying(c.list, effectiveRange)
       IN IF bestVersion = NullText THEN <<>>
          ELSE <<[version |-> bestVersion, range |-> range]>>

\* The ranges one name is demanded under: tag names and semver ranges
DemandRanges ==
  {RText(k, "", NoText, NoText) : k \in {"latest", "word", "wordx", "star"}}
    \cup {RText("caret", "", VText("", <<x, 0, 0>>, <<>>), NoText) : x \in 0..MaxNum}
    \cup {RText("plain", "", VText("", <<x, 0, 0>>, <<>>), NoText) : x \in 0..MaxNum}

\* The packuments: two versions, and no dist-tag or one that names a version
\* among them, release or prerelease
Packuments ==
  {[list |-> <<a, b>>, tag |-> [name |-> n, version |-> v]] :
     a \in MaxTexts, b \in MaxTexts, n \in {"latest", "word", "wordx"},
     v \in {t \in MaxTexts : Parse(t).valid}}
    \cup {[list |-> <<a, b>>, tag |-> [name |-> "none", version |-> NullText]] :
            a \in MaxTexts, b \in MaxTexts}

\* resolve / resolvePackages meeting one name under two ranges in turn
InitResolve ==
  /\ InitRuntime
  /\ npm = NoNpm
  /\ dev = NoDev
  /\ session = "npm"
  /\ pkgJson = [exists |-> FALSE, deps |-> <<>>]
  /\ tar = NoTar
  /\ \E p \in Packuments, r1 \in DemandRanges, r2 \in DemandRanges :
       /\ p.tag.name # "none" => \E i \in 1..Len(p.list) : p.list[i] = p.tag.version
       /\ sem = [SemCall("resolve", NoText, NoText, NoRange, p.list)
                   EXCEPT !.tag = p.tag, !.demands = <<r1, r2>>]

\* One call of resolveDep for the name
SemResolveDep ==
  /\ sem.case = "resolve" /\ sem.demands # <<>>
  /\ sem' = [sem EXCEPT !.map = ResolveDep(sem, Head(sem.demands)),
                        !.demands = Tail(@),
                        !.done = TRUE]
  /\ UNCHANGED <<runtime, tar, dev, npm>>

NextResolve == SemResolveDep

SpecResolve == InitResolve /\ [][NextResolve]_vars

\* The package names of a dependency graph
Names == 1..MaxNames

\* A call of resolveDep(name, ..., depth) that has not started, or the
\* finally block of one that has recursed
CallFrame(name, depth) == [kind |-> "call", name |-> name, depth |-> depth]
ExitFrame(name) == [kind |-> "exit", name |-> name, depth |-> 0]

\* The calls for the names of a set, in ascending order
CallsFor(S, depth) ==
  [i \in 1..Cardinality(S) |-> CallFrame(SortedSeq(S)[i], depth)]

\* Variant of resolveDep without the test resolved.has(name)
ResolveDepCallAgain(c, found) ==
  LET f    == Head(c.calls)
      rest == Tail(c.calls)
  IN IF f.kind = "exit"
     THEN [c EXCEPT !.resolving = @ \ {f.name}, !.calls = rest]
     ELSE IF f.depth > DEPTH_LIMIT \/ f.name \in c.resolving \/ ~found
     THEN [c EXCEPT !.calls = rest]
     ELSE [c EXCEPT !.names = Append(@, f.name),
                    !.resolving = @ \cup {f.name},
                    !.calls = CallsFor(c.graph[f.name], f.depth + 1) \o <<ExitFrame(f.name)>> \o rest]

\* resolveDep, the next call or finally block to run: the depth guard, the
\* name already in the resolved map, the name being resolved; then the
\* packument and the version (found says whether both were there); then
\* resolved.set and the calls for the dependencies, after them the finally
\* block
ResolveDepCall(c, found) ==
  LET f    == Head(c.calls)
      rest == Tail(c.calls)
  IN IF f.kind = "exit"
     THEN [c EXCEPT !.resolving = @ \ {f.name}, !.calls = rest]
     ELSE IF f.depth > DEPTH_LIMIT \/ InSeq(f.name, c.names) \/ f.name \in c.resolving \/ ~found
     THEN [c EXCEPT !.calls = rest]
     ELSE [c EXCEPT !.names = Append(@, f.name),
                    !.resolving = @ \cup {f.name},
                    !.calls = CallsFor(c.graph[f.name], f.depth + 1) \o <<ExitFrame(f.name)>> \o rest]

\* resolve / resolvePackages over every dependency graph of the names, cycles
\* and self-dependencies included, from every non-empty set of top-level names
InitGraph ==
  /\ InitRuntime
  /\ npm = NoNpm
  /\ dev = NoDev
  /\ session = "npm"
  /\ pkgJson = [exists |-> FALSE, deps |-> <<>>]
  /\ tar = NoTar
  /\ \E g \in [Names -> SUBSET Names], top \in SUBSET Names \ {{}} :
       sem = [SemCall("graph", NoText, NoText, NoRange, <<>>)
                EXCEPT !.graph = g, !.calls = CallsFor(top, 0)]

\* The next call of resolveDep runs up to its recursion, or a finally block
SemResolveStep(found) ==
  /\ sem.case = "graph" /\ sem.calls # <<>>
  /\ sem' = ResolveDepCall(sem, found)
  /\ UNCHANGED <<runtime, tar, dev, npm>>

NextGraph == \E found \in BOOLEAN : SemResolveStep(found)

\* The event loop runs every continuation that is ready, and every registry
\* request settles
SpecGraph == InitGraph /\ [][NextGraph]_vars /\ WF_vars(NextGraph)

\* tar.extract into an empty destination directory, for every archive of
\* MaxEntries headers
InitTar ==
  /\ InitRuntime
  /\ npm = NoNpm
  /\ dev = NoDev
  /\ session = "npm"
  /\ pkgJson = [exists |-> FALSE, deps |-> <<>>]
  /\ sem = NoSem
  /\ \E q \in [1..MaxEntries -> Entries] : tar = [NoTar EXCEPT !.archive = q]

\* One turn of the loop over the headers
ExtractEntry ==
  /\ ~tar.failed /\ tar.at <= Len(tar.archive)
  /\ tar' = Extract(tar)
  /\ UNCHANGED <<runtime, sem, dev, npm>>

NextTar == ExtractEntry

SpecTar == InitTar /\ [][NextTar]_vars

\* The header blocks of the buffers extract is given
Headers ==
  {Header("zero", ""), Header("x", "package/pax"), Header("x", ""), Header("g", ""),
   Header("L", "package/gnu"), Header("0", "package/own")}

\* extract over every buffer of MaxBlocks header blocks
InitHeaders ==
  /\ InitRuntime
  /\ npm = NoNpm
  /\ dev = NoDev
  /\ session = "npm"
  /\ pkgJson = [exists |-> FALSE, deps |-> <<>>]
  /\ sem = NoSem
  /\ \E q \in [1..MaxBlocks -> Headers] : tar = [NoTar EXCEPT !.blocks = q]

HeaderStep ==
  /\ tar.blocks # <<>>
  /\ ~tar.ended
  /\ tar' = HeaderLoop(tar)
  /\ UNCHANGED <<runtime, sem, dev, npm>>

NextHeaders == HeaderStep

SpecHeaders == InitHeaders /\ [][NextHeaders]_vars

\* The semver functions, each called once with inputs from the sets above
InitSemver ==
  /\ InitRuntime
  /\ npm = NoNpm
  /\ dev = NoDev
  /\ session = "npm"
  /\ pkgJson = [exists |-> FALSE, deps |-> <<>>]
  /\ tar = NoTar
  /\ \/ \E a \in CmpTexts, b \in CmpTexts : sem = SemCall("compare", a, b, NoRange, <<>>)
     \/ \E a \in SatTexts, r \in Ranges : sem = SemCall("satisfies", a, NoText, r, <<>>)
     \/ \E a \in MaxTexts, b \in MaxTexts, c \in MaxTexts, r \in MaxRanges :
           sem = SemCall("max", NoText, NoText, r, <<a, b, c>>)

SemCompare ==
  /\ sem.case = "compare" /\ ~sem.done
  /\ sem' = [sem EXCEPT !.done = TRUE,
                        !.cmp = <<Compare(Parse(sem.a), Parse(sem.b)),
                                  Compare(Parse(sem.b), Parse(sem.a))>>]
  /\ UNCHANGED <<runtime, tar, dev, npm>>

SemSatisfies ==
  /\ sem.case = "satisfies" /\ ~sem.done
  /\ sem' = [sem EXCEPT !.done = TRUE, !.sat = Satisfies(sem.a, sem.r)]
  /\ UNCHANGED <<runtime, tar, dev, npm>>

SemMaxSatisfying ==
  /\ sem.case = "max" /\ ~sem.done
  /\ sem' = [sem EXCEPT !.done = TRUE, !.max = MaxSatisfying(sem.list, sem.r)]
  /\ UNCHANGED <<runtime, tar, dev, npm>>

NextSemver == SemCompare \/ SemSatisfies \/ SemMaxSatisfying

SpecSemver == InitSemver /\ [][NextSemver]_vars

\* buildHTML over every project made of the paths above
InitEntry ==
  /\ InitRuntime
  /\ npm = NoNpm
  /\ session = "scripts"
  /\ pkgJson = [exists |-> FALSE, deps |-> <<>>]
  /\ sem = NoSem
  /\ tar = NoTar
  /\ \E S \in SUBSET {ProjectPaths[i] : i \in DOMAIN ProjectPaths} :
       dev = [DevCase("entry") EXCEPT !.fileList = FileListOf(S)]

BuildHTML ==
  /\ dev.case = "entry"
  /\ ~dev.done
  /\ dev' = [dev EXCEPT !.entryScript = EntryScript(dev.fileList), !.done = TRUE]
  /\ UNCHANGED <<runtime, sem, tar, npm>>

NextEntry == BuildHTML

SpecEntry == InitEntry /\ [][NextEntry]_vars

\* The statements a module of the project can be made of
Stmts ==
  {Stmt("exportDefaultFunction", "F", b) : b \in BOOLEAN}
    \cup {Stmt("function", "G", b) : b \in BOOLEAN}
    \cup {Stmt("exportDefault", "F", TRUE), Stmt("exportFunction", "X", TRUE),
          Stmt("exportConst", "X", TRUE), Stmt("setProp", "X", TRUE),
          Stmt("mention", "", TRUE)}

\* A module has one default export at most and declares a name once
WellFormed(code) ==
  /\ Cardinality({i \in DOMAIN code :
        code[i].kind \in {"exportDefaultFunction", "exportDefault"}}) <= 1
  /\ \A i, j \in DOMAIN code :
       (/\ code[i].kind \in {"exportDefaultFunction", "exportFunction",
                             "exportConst", "function"}
        /\ code[j].kind = code[i].kind /\ code[j].name = code[i].name) => i = j

\* transformModules and the loader over every module of MaxStmts statements
InitModules ==
  /\ InitRuntime
  /\ npm = NoNpm
  /\ session = "scripts"
  /\ pkgJson = [exists |-> FALSE, deps |-> <<>>]
  /\ sem = NoSem
  /\ tar = NoTar
  /\ \E n \in 1..MaxStmts : \E code \in [1..n -> Stmts] :
       /\ WellFormed(code)
       /\ dev = [DevCase("module") EXCEPT !.source = code]

\* buildHTML registers the rewritten module
TransformStep ==
  /\ dev.case = "module"
  /\ dev.code = <<>>
  /\ dev' = [dev EXCEPT !.code = TransformModules(dev.source)]
  /\ UNCHANGED <<runtime, sem, tar, npm>>

\* the page requires it
RequireStep ==
  /\ dev.case = "module"
  /\ dev.code # <<>>
  /\ ~dev.done
  /\ dev' = [dev EXCEPT !.exports = Require(dev.code), !.done = TRUE]
  /\ UNCHANGED <<runtime, sem, tar, npm>>

NextModules == TransformStep \/ RequireStep

SpecModules == InitModules /\ [][NextModules]_vars

\* start: watchForChanges got its watcher, or fs.watch threw, and the
\* server listens
InitPoll ==
  /\ InitRuntime
  /\ npm = NoNpm
  /\ session = "scripts"
  /\ pkgJson = [exists |-> FALSE, deps |-> <<>>]
  /\ sem = NoSem
  /\ tar = NoTar
  /\ \E w \in {"open", "none"} :
       dev = [DevCase("poll") EXCEPT !.now = StartMs, !.lastModTime = StartMs,
                                     !.mtime = StartMs, !.watcher = w,
                                     !.closeAt = StartMs + WATCH_MS,
                                     !.serving = TRUE]

\* The since a page can send: none, the time it was loaded or last reloaded
SinceValues ==
  {0, dev.now, dev.lastModTime} \cup {dev.polls[i].at : i \in DOMAIN dev.polls}

PollArrives(since) ==
  /\ dev.case = "poll"
  /\ dev.serving
  /\ Len(dev.polls) < MaxPolls
  /\ dev' = [dev EXCEPT !.polls = Append(@, PollCase(dev, since))]
  /\ UNCHANGED <<runtime, sem, tar, npm>>

HoldExpires(i) ==
  /\ dev.case = "poll"
  /\ i \in DOMAIN dev.polls
  /\ dev.polls[i].answers = 0
  /\ dev.now >= dev.polls[i].due
  /\ dev' = PollHeld(dev, i)
  /\ UNCHANGED <<runtime, sem, tar, npm>>

FileChange ==
  /\ dev.case = "poll"
  /\ dev.mtime < dev.now
  /\ dev' = WatchCallback(dev)
  /\ UNCHANGED <<runtime, sem, tar, npm>>

\* setTimeout(() => watcher.close(), 60000)
WatcherCloses ==
  /\ dev.case = "poll"
  /\ dev.watcher = "open"
  /\ dev.now >= dev.closeAt
  /\ dev' = [dev EXCEPT !.watcher = "closed"]
  /\ UNCHANGED <<runtime, sem, tar, npm>>

\* The abort listener: server.close()
StopServer ==
  /\ dev.case = "poll"
  /\ dev.serving
  /\ dev' = [dev EXCEPT !.serving = FALSE]
  /\ UNCHANGED <<runtime, sem, tar, npm>>

\* Time passes up to the next timer
AdvanceToTimer ==
  /\ dev.case = "poll"
  /\ PendingDue(dev) # {}
  /\ \A t \in PendingDue(dev) : t > dev.now
  /\ dev' = [dev EXCEPT !.now = CHOOSE t \in PendingDue(dev) :
                                  \A u \in PendingDue(dev) : t <= u]
  /\ UNCHANGED <<runtime, sem, tar, npm>>

\* Time passes up to the next poll of the page
Wait ==
  /\ dev.case = "poll"
  /\ dev.waits < MaxWaits
  /\ \A t \in PendingDue(dev) : dev.now + POLL_INTERVAL <= t
  /\ dev' = [dev EXCEPT !.now = @ + POLL_INTERVAL, !.waits = @ + 1]
  /\ UNCHANGED <<runtime, sem, tar, npm>>

NextPoll ==
  \/ \E since \in SinceValues : PollArrives(since)
  \/ \E i \in 1..MaxPolls : HoldExpires(i)
  \/ FileChange
  \/ WatcherCloses
  \/ StopServer
  \/ AdvanceToTimer
  \/ Wait

\* Timers fire: time reaches the next one, and its callback runs
SpecPoll ==
  /\ InitPoll
  /\ [][NextPoll]_vars
  /\ WF_vars(AdvanceToTimer)
  /\ WF_vars(\E i \in 1..MaxPolls : HoldExpires(i))
  /\ WF_vars(WatcherCloses)


\* The arguments written in a script or given to npm run
ArgLists == {<<>>, <<"a">>, <<"b">>, <<"a", "b">>}

\* npm run <name> [args] for every script string of up to MaxParts commands
InitScript ==
  /\ InitRuntime
  /\ session = "scripts"
  /\ pkgJson = [exists |-> TRUE, deps |-> <<>>]
  /\ sem = NoSem
  /\ tar = NoTar
  /\ dev = NoDev
  /\ \E k \in 1..MaxParts : \E q \in [1..k -> ArgLists], extra \in ArgLists :
       npm = [NpmCase("script") EXCEPT !.parts = [i \in 1..k |-> Part(q[i])],
                                       !.args = extra, !.extraArgs = extra]

ScriptStep(code) ==
  /\ npm.case = "script"
  /\ ~npm.done
  /\ npm' = ScriptLoop(npm, code)
  /\ UNCHANGED <<runtime, sem, tar, dev>>

NextScript == \E code \in {0, 1} : ScriptStep(code)

SpecScript == InitScript /\ [][NextScript]_vars

\* The exec tasks that run a command
Tasks == 1..MaxTasks

\* Script commands with or without a prefix KEY=1 or KEY=2, started by exec
\* frames as they come, each awaiting the file it runs
InitEnv ==
  /\ InitRuntime
  /\ session = "scripts"
  /\ pkgJson = [exists |-> TRUE, deps |-> <<>>]
  /\ sem = NoSem
  /\ tar = NoTar
  /\ dev = NoDev
  /\ \E v \in {"", "0"} :
       npm = [NpmCase("env") EXCEPT !.env = v, !.before = v,
                                    !.saved = [t \in Tasks |-> "none"],
                                    !.running = [t \in Tasks |-> "idle"]]

EnvEnter(t, v) ==
  /\ npm.case = "env"
  /\ npm.running[t] = "idle"
  /\ npm' = ApplyEnv(npm, t, v)
  /\ UNCHANGED <<runtime, sem, tar, dev>>

EnvLeave(t) ==
  /\ npm.case = "env"
  /\ npm.running[t] = "running"
  /\ npm' = RestoreEnv(npm, t)
  /\ UNCHANGED <<runtime, sem, tar, dev>>

NextEnv ==
  \/ \E t \in Tasks, v \in {"", "1", "2"} : EnvEnter(t, v)
  \/ \E t \in Tasks : EnvLeave(t)

SpecEnv == InitEnv /\ [][NextEnv]_vars

\* The packages a registry can hold: plain and scoped names, a bin that is a
\* string or an object, a bin path written with a slash or a backslash
BinPaths == {<<"cli.js">>, <<"bin", "/", "cli.js">>, <<"bin", "\\", "cli.js">>}
PkgNames == {<<"a">>, <<"a", "b">>, <<"@s", "/", "a">>}
BinPackages ==
  {[name |-> nm, bin |-> BinString(q)] : nm \in PkgNames, q \in BinPaths}
    \cup {[name |-> nm, bin |-> BinObject(b, q)] :
            nm \in PkgNames, b \in {<<"a">>, <<"x">>}, q \in BinPaths}

\* An install of one or two packages with a bin into an empty node_modules,
\* then runBin and uninstall as they are asked for
InitBins ==
  /\ InitRuntime
  /\ session = "npm"
  /\ pkgJson = [exists |-> TRUE, deps |-> <<>>]
  /\ sem = NoSem
  /\ tar = NoTar
  /\ dev = NoDev
  /\ \E c \in {<<"/", "p">>, <<"/", "a">>}, x \in BinPackages, y \in BinPackages :
       /\ x.name = y.name => x = y
       /\ npm = [NpmCase("bins") EXCEPT !.cwd = c, !.packages = {x, y}]

\* installResolved, a package of the batch after its extraction
LinkStep(pkg) ==
  /\ npm.case = "bins"
  /\ pkg \in npm.packages
  /\ pkg.name \notin npm.linked
  /\ npm' = LinkBins(npm, pkg)
  /\ UNCHANGED <<runtime, sem, tar, dev>>

RunBinStep(binName) ==
  /\ npm.case = "bins"
  /\ \A pkg \in npm.packages : pkg.name \in npm.linked
  /\ npm' = [npm EXCEPT !.ran = RunBin(npm, binName)]
  /\ UNCHANGED <<runtime, sem, tar, dev>>

UninstallStep(name) ==
  /\ npm.case = "bins"
  /\ \A pkg \in npm.packages : pkg.name \in npm.linked
  /\ name \in npm.dirs
  /\ npm' = [RemovePackage(npm, name) EXCEPT !.ran = NoRun]
  /\ UNCHANGED <<runtime, sem, tar, dev>>

NextBins ==
  \/ \E pkg \in BinPackages : LinkStep(pkg)
  \/ \E b \in {<<"a">>, <<"x">>} : RunBinStep(b)
  \/ \E nm \in PkgNames : UninstallStep(nm)

SpecBins == InitBins /\ [][NextBins]_vars

\* --- the page loader: the modules of a page are required ---
Modules == 1..MaxModules

\* A module function: the modules its body requires, and whether the body
\* ends by throwing
ModuleFns == [requires : SUBSET Modules, throws : BOOLEAN]

\* The page requires its entry module, and one of its modules is required
\* once more later (from a handler the page installed)
InitLoader ==
  /\ InitRuntime
  /\ npm = NoNpm
  /\ session = "scripts"
  /\ pkgJson = [exists |-> FALSE, deps |-> <<>>]
  /\ sem = NoSem
  /\ tar = NoTar
  /\ \E code \in [Modules -> ModuleFns], again \in Modules :
       dev = [DevCase("loader") EXCEPT !.moduleCode = code,
                                       !.top = <<1, again>>,
                                       !.invoked = [m \in Modules |-> 0]]

PageRequires ==
  /\ dev.case = "loader"
  /\ dev.frames = <<>>
  /\ dev.top # <<>>
  /\ dev' = [dev EXCEPT !.frames = <<LoaderFrame("require", Head(dev.top))>>,
                        !.top = Tail(@)]
  /\ UNCHANGED <<runtime, sem, tar, npm>>

LoaderStep ==
  /\ dev.case = "loader"
  /\ dev.frames # <<>>
  /\ dev' = LoaderRequire(dev)
  /\ UNCHANGED <<runtime, sem, tar, npm>>

NextLoader ==
  \/ PageRequires
  \/ LoaderStep

\* The page runs in one thread that is always scheduled
SpecLoader == InitLoader /\ [][NextLoader]_vars /\ WF_vars(NextLoader)

\* --- the static endpoint: files are requested from the preview server ---
Segments == {"..", "home", "p", "f"}

Urls == UNION {[1..n -> Segments] : n \in 1..MaxSegs}

InitStatic ==
  /\ InitRuntime
  /\ npm = NoNpm
  /\ session = "scripts"
  /\ pkgJson = [exists |-> FALSE, deps |-> <<>>]
  /\ sem = NoSem
  /\ tar = NoTar
  /\ \E dir \in {<<"p">>, <<"home", "p">>}, out \in {<<"f">>, <<"home", "f">>} :
       dev = [DevCase("static") EXCEPT !.projectDir = dir,
                                       !.files = {dir \o <<"f">>, out}]

StaticRequest(url) ==
  /\ dev.case = "static"
  /\ dev' = ServeStatic(dev, url)
  /\ UNCHANGED <<runtime, sem, tar, npm>>

NextStatic == \E url \in Urls : StaticRequest(url)

SpecStatic == InitStatic /\ [][NextStatic]_vars

\* ------------------------------------------------------------- claims ----
Idx == 1..Len(sent)
Terminal(f) == f.type \in {"exit", "error"}
TerminalsOf(q, x) == Cardinality({i \in 1..Len(q) : q[i].id = x /\ Terminal(q[i])})
ExecIds == {h \in Handlers : req[h].type = "exec"}

\* C1: for every exec id X the frames carrying X are stdout / stderr frames
\* followed by one terminal frame (exit or error), and no frame with id X
\* follows the terminal one.
C1_FrameGrammar ==
  \A X \in ExecIds : \A i, j \in Idx :
    (i < j /\ sent[i].id = X /\ sent[j].id = X) => ~Terminal(sent[i])

\* C2: when a kill of a live task X has been answered killed, the terminal
\* frame of X is an exit frame with code 130, whichever handler ran X.
C2_KilledExits130 ==
  \A i, j \in Idx :
    (sent[i].type = "killed" /\ sent[j].id = req[sent[i].id].processId /\ Terminal(sent[j]))
      => sent[j] = Frame(sent[j].id, "exit", 130)

\* C3: after the killed reply to a kill of X no stdout or stderr frame with
\* id X is sent; only X's terminal frame may follow.
C3_SilentAfterKilled ==
  \A i, j \in Idx :
    (i < j /\ sent[i].type = "killed" /\ sent[j].id = req[sent[i].id].processId)
      => Terminal(sent[j])

\* C4: the killed reply to a kill of X (it carries the kill request's own id)
\* is sent before the terminal frame of X.
C4_KilledBeforeExit ==
  \A i, j \in Idx :
    (sent[i].type = "killed" /\ Terminal(sent[j]) /\ sent[j].id = req[sent[i].id].processId)
      => i < j

\* A kill whose reply is directly followed by the exit frame of the task it
\* named: the task's continuation ran in the kill's own macrotask.
C4_Witness ==
  \E i \in Idx :
    /\ sent[i].type = "killed" /\ i < Len(sent)
    /\ sent[i + 1].type = "exit" /\ sent[i + 1].id = req[sent[i].id].processId

\* C5: when every runFile / runEval call has returned, process.cwd, exit, argv
\* and console.log, error, warn, info, debug, dir are the original values.
C5_GlobalsRestored ==
  (alive /\ \A h \in Handlers : pc[h] # "await") => globals = Orig

\* C6: a runFile call with a token and a script whose synchronous body returns
\* does not return before the token is aborted, and then it returns 130 (for
\* a node command the exit frame carries runFile's return value).
C6_RunFileWaitsForAbort ==
  [][\A h \in Handlers :
       (cmd[h] = "node" /\ pc[h] = "await" /\ pc'[h] # "await")
         => (aborted'[h] /\ sent'[Len(sent')] = Frame(req[h].id, "exit", 130))]_vars

\* C7: a pause aborts every task in the map and leaves the map empty; a later
\* kill that names one of them is answered with an error frame and aborts
\* nothing; each of them has sent no terminal frame while its registry request
\* or batch is outstanding and exactly one otherwise.
C7_PauseAbortsAll ==
  [][/\ npause' # npause =>
          /\ \A h \in InMap(World) : aborted'[h]
          /\ \A i \in Handlers : activeTasks'[i] = NoTask
     /\ (nmsg' # nmsg /\ req'[nmsg'].type = "kill" /\ req'[nmsg'].processId \in paused) =>
          /\ sent' = Append(sent, Frame(nmsg', "error", 0))
          /\ aborted' = aborted
     /\ \A h \in paused' :
          TerminalsOf(sent', req'[h].id) = IF pc'[h] \in {"fetch", "batch"} THEN 0 ELSE 1]_vars

\* A task the pause aborted has sent its one terminal frame, and a kill that
\* arrived after the pause and named it was answered with an error frame.
C7_Witness ==
  \E k \in Handlers :
    /\ req[k].type = "kill" /\ req[k].processId \in paused /\ req[k].processId < k
    /\ aborted[req[k].processId]
    /\ TerminalsOf(sent, req[k].processId) = 1
    /\ \E i \in Idx : sent[i] = Frame(k, "error", 0)

\* C8: a kill is answered killed exactly when its processId names an entry of
\* the map; then that task's token is aborted and the entry removed; otherwise
\* the only effect is the error reply and no token is aborted.
C8_KillReply ==
  [][(nmsg' # nmsg /\ req'[nmsg'].type = "kill") =>
       LET k == nmsg'
           t == activeTasks[req'[k].processId]
       IN IF t # NoTask
          THEN /\ \E i \in (Len(sent) + 1)..Len(sent') : sent'[i] = Frame(k, "killed", 0)
               /\ \A i \in 1..Len(sent') : sent'[i].id = k => sent'[i].type = "killed"
               /\ aborted'[t]
               /\ activeTasks'[req'[k].processId] = NoTask
          ELSE /\ sent' = Append(sent, Frame(k, "error", 0))
               /\ aborted' = aborted
               /\ activeTasks' = activeTasks]_vars

\* A kill answered killed whose task is aborted, out of the map and still
\* waiting for the registry.
C8_Witness ==
  \E k \in Handlers :
    /\ req[k].type = "kill"
    /\ \E i \in Idx : sent[i] = Frame(k, "killed", 0)
    /\ aborted[req[k].processId]
    /\ activeTasks[req[k].processId] = NoTask
    /\ pc[req[k].processId] \in {"fetch", "batch"}

\* C9: every registry request is a cancellation point: once the token of an
\* install is aborted it starts no packument fetch and no tarball download,
\* and a download that was in flight is torn down instead of being extracted.
C9_RegistryCancellation ==
  [][\A h \in Handlers :
       aborted[h] =>
         /\ inst'[h].cur \in {0, inst[h].cur}
         /\ \A p \in Pkgs : inst'[h].st[p] = "dl" => inst[h].st[p] = "dl"
         /\ \A p \in Pkgs : inst'[h].st[p] = "ext" => inst[h].st[p] = "ext"]_vars

\* C10: when an install ends with exit code 0, every name the resolver
\* resolved has node_modules/<name>/package.json with the resolved version.
C10_ExitZeroInstalled ==
  [][\A h \in Handlers :
       (session = "npm" /\ req'[h].type = "exec" /\ pc'[h] = "done" /\ pc[h] # "done"
          /\ sent'[Len(sent')] = Frame(req'[h].id, "exit", 0))
         => \A i \in 1..Len(inst'[h].resolved) :
               nodeModules'[inst'[h].resolved[i]] = RegVersion(inst'[h].resolved[i])]_vars

\* Semver precedence, written down independently of compare
IdLess(x, y) ==
  \/ x.num /\ y.num /\ x.val < y.val
  \/ x.num /\ ~y.num
  \/ ~x.num /\ ~y.num /\ x.val < y.val
PreLess(p, q) ==
  \/ \E i \in 1..Len(p) : /\ i <= Len(q)
                          /\ \A j \in 1..(i - 1) : p[j] = q[j]
                          /\ IdLess(p[i], q[i])
  \/ Len(p) < Len(q) /\ \A j \in 1..Len(p) : p[j] = q[j]
CoreLess(c, d) ==
  \/ c[1] < d[1]
  \/ c[1] = d[1] /\ c[2] < d[2]
  \/ c[1] = d[1] /\ c[2] = d[2] /\ c[3] < d[3]
CoreOf(v) == <<v.major, v.minor, v.patch>>
SemverLess(a, b) ==
  \/ CoreLess(CoreOf(a), CoreOf(b))
  \/ /\ CoreOf(a) = CoreOf(b)
     /\ \/ a.prerelease # <<>> /\ b.prerelease = <<>>
        \/ a.prerelease # <<>> /\ b.prerelease # <<>> /\ PreLess(a.prerelease, b.prerelease)

\* C15: a prerelease version is not matched by a range that mentions no
\* prerelease: satisfies is false for it, and maxSatisfying (the resolver's
\* choice) never returns it.
C15_PrereleaseExcluded ==
  /\ (sem.case = "satisfies" /\ sem.done /\ sem.a.pre # <<>>) => ~sem.sat
  /\ (sem.case = "max" /\ sem.done) => sem.max.pre = <<>>

\* C16: satisfies(v, r) is true for every parsable version v, release or
\* prerelease, and every r among "*", "" and "latest".
C16_StarMatchesAll ==
  (sem.case = "satisfies" /\ sem.done /\ Parse(sem.a).valid
     /\ sem.r.kind \in {"star", "empty", "latest"}) => sem.sat

C20_HyphenRange ==
  (sem.case = "satisfies" /\ sem.done /\ sem.a.pre = <<>> /\ sem.r.kind = "hyphen") =>
    LET lo == sem.r.a.parts
        hi == sem.r.b.parts
        v  == sem.a.parts
    IN sem.sat <=>
         /\ ~CoreLess(v, lo)
         /\ CASE Len(hi) = 3 -> ~CoreLess(hi, v)
              [] Len(hi) = 2 -> CoreLess(v, <<hi[1], hi[2] + 1, 0>>)
              [] OTHER       -> CoreLess(v, <<hi[1] + 1, 0, 0>>)

\* C14: a script file and node -e code alike that call process.exit(c) end
\* their task with the exit frame of code c, and the call ends neither the
\* host process nor another task.
C14_ProcessExitEndsTask ==
  [][\A c \in ScriptCommands :
       (Exec(c) /\ \/ c.cmd = "node" /\ c.script = ScriptExit
                   \/ c.cmd = "eval" /\ c.end = "exit") =>
         /\ alive'
         /\ \E i \in 1..Len(sent') : sent'[i] = Frame(nmsg + 1, "exit", ScriptExit.code)
         /\ \A x \in Handlers \ {nmsg + 1} :
              activeTasks[x] # NoTask => activeTasks'[x] = activeTasks[x]]_vars

\* The install of handler h has ended with exit code 0 and every package of
\* its resolved map is installed at the resolved version
EndedInstalled(h) ==
  /\ \E i \in Idx : sent[i] = Frame(h, "exit", 0)
  /\ \A i \in 1..Len(inst[h].resolved) :
       nodeModules[inst[h].resolved[i]] = RegVersion(inst[h].resolved[i])

\* The resolved map of handler h holds every dependency of package.json and
\* every dependency of a package it holds
ResolvedAll(h) ==
  /\ \A i \in 1..Len(pkgJson.deps) : InSeq(pkgJson.deps[i], inst[h].resolved)
  /\ \A p \in Pkgs : InSeq(p, inst[h].resolved) =>
       \A j \in 1..Len(RegDeps(p)) : InSeq(RegDeps(p)[j], inst[h].resolved)

\* The install of handler h starts no tarball download in this step, and if
\* it ends in this step it has written the lockfile that was there
IdleInstallStep(h) ==
  /\ \A p \in Pkgs : inst'[h].st[p] # "dl"
  /\ (pc'[h] = "done" /\ pc[h] # "done") =>
       /\ sent'[Len(sent')] = Frame(h, "exit", 0)
       /\ lockfile'.exists /\ lockfile' = lockfile

C12_ExtractStaysInside ==
  \A n \in tar.made :
    /\ ~n.loc.out
    /\ LET e == tar.archive[n.by]
       IN (~e.abs /\ Len(e.comps) >= 2 /\ e.comps[1] = "package") =>
            \E k \in 1..(Len(e.comps) - 1) : n.loc.comps = SubSeq(e.comps, 2, k + 1)

\* C11: the version of an entry of the resolved map satisfies (by
\* semver.satisfies) the range the name was first added under, a semver range
\* or a dist-tag name, and a later demand for the name does not change the
\* entry.
C11_EntrySatisfiesFirstRange ==
  [][/\ \A i \in 1..Len(sem'.map) : Satisfies(sem'.map[i].version, sem'.map[i].range)
     /\ sem.map # <<>> => sem'.map = sem.map]_vars

\* C21: a range text that is no valid range (free text, with or without the
\* letters x, X and *) degrades to the single comparator >= 0.0.0, so
\* satisfies is true for every release version.
C21_FreeTextMatchesReleases ==
  (sem.case = "satisfies" /\ sem.done /\ sem.a.pre = <<>>
     /\ sem.r.kind \in {"word", "wordx"}) =>
    /\ ParseRange(sem.r) = AnyRange
    /\ sem.sat

\* The batch of installResolved that the i-th resolved package belongs to
BatchOf(i) == (i - 1) \div BATCH_SIZE

\* C27: during installResolved at most BATCH_SIZE = 4 packages are being
\* downloaded or extracted, and no package of a later batch is started before
\* every package of the batches before it has finished (installed, cached or
\* failed).
C27_BatchesOfFour ==
  \A h \in Handlers :
    /\ Cardinality({p \in Pkgs : inst[h].st[p] \in {"dl", "ext"}}) <= 4
    /\ \A i, j \in 1..Len(inst[h].resolved) :
         (BatchOf(i) < BatchOf(j) /\ inst[h].st[inst[h].resolved[j]] # "-")
           => inst[h].st[inst[h].resolved[i]] \in {"ok", "cached", "failed"}

\* The fifth package is being downloaded after four packages of the first
\* batch have finished, one of them failed.
C27_Witness ==
  \E h \in Handlers :
    /\ Len(inst[h].resolved) >= 5
    /\ inst[h].st[inst[h].resolved[5]] = "dl"
    /\ \E i \in 1..4 : inst[h].st[inst[h].resolved[i]] = "failed"
    /\ \E i \in 1..4 : inst[h].st[inst[h].resolved[i]] = "ok"

\* C29: once the token of an install is aborted no batch is started: no
\* download begins, and an install that ends with packages of a batch not
\* started ends by 'Installation cancelled' (stderr, exit code 130) without
\* writing package-lock.json.
C29_AbortedBeforeBatch ==
  [][\A h \in Handlers :
       aborted[h] =>
         /\ \A p \in Pkgs : inst'[h].st[p] = "dl" => inst[h].st[p] = "dl"
         /\ (pc[h] # "done" /\ pc'[h] = "done"
               /\ \E i \in 1..Len(inst'[h].resolved) : inst[h].st[inst'[h].resolved[i]] = "-")
              => /\ lockfile' = lockfile
                 /\ Len(sent') >= 2
                 /\ sent'[Len(sent')] = Frame(req[h].id, "exit", 130)
                 /\ sent'[Len(sent') - 1] = Frame(req[h].id, "stderr", 0)]_vars

\* An install has been cancelled at the head of its second batch: packages
\* of the first batch are installed, the fifth was never downloaded, no
\* lockfile.
C29_Witness ==
  \E h \in Handlers :
    /\ aborted[h] /\ pc[h] = "done"
    /\ Len(inst[h].resolved) >= 5
    /\ nodeModules[inst[h].resolved[1]] # 0
    /\ nodeModules[inst[h].resolved[5]] = 0
    /\ sent[Len(sent)] = Frame(req[h].id, "exit", 130)
    /\ ~lockfile.exists

\* An exec handler started under id that has neither returned nor been
\* killed or paused
LiveUnder(id) ==
  {h \in Handlers : req[h].type = "exec" /\ req[h].id = id
                    /\ pc[h] \notin {"none", "done"} /\ ~aborted[h]}

\* C28: whatever ids the exec frames carry, the active-task map holds an
\* entry for an id exactly while an exec handler started under that id has
\* neither returned nor been killed or paused, and a handler that finishes
\* leaves the entry of every other live task in place.
C28_MapTracksLiveTasks ==
  [][alive' =>
       /\ \A id \in Handlers : (activeTasks[id] # NoTask) <=> (LiveUnder(id) # {})
       /\ \A id \in Handlers, h \in Handlers :
            (activeTasks[id] = h /\ activeTasks'[id] = NoTask)
              => (pc'[h] = "done" \/ aborted'[h])]_vars

\* C30: resolve and resolvePackages terminate on every dependency graph,
\* cycles and self-dependencies included, and no name is entered in the
\* resolved map twice.
C30_ResolveTerminates ==
  /\ <>(sem.calls = <<>>)
  /\ [](\A i, j \in 1..Len(sem.names) : sem.names[i] = sem.names[j] => i = j)

\* The walk has ended on a graph in which 1 depends on 2 and on itself and
\* 2 depends on 1, and both are resolved.
C30_Witness ==
  /\ sem.case = "graph" /\ sem.calls = <<>>
  /\ sem.graph[1] = {1, 2} /\ sem.graph[2] = {1}
  /\ Len(sem.names) = 2

\* The first of the candidates that the list holds
FirstPresent(list, candidates) ==
  IF \E i \in DOMAIN candidates : Includes(list, candidates[i])
    THEN candidates[CHOOSE i \in DOMAIN candidates :
                      /\ Includes(list, candidates[i])
                      /\ \A j \in 1..(i - 1) : ~Includes(list, candidates[j])]
    ELSE NoPath

\* C26: the entry of the page is the first present of /index.js, /index.jsx,
\* /index.ts, /index.tsx, required as it is; without any of them the first
\* present of /App.js, /App.jsx, /App.tsx, /App.ts, rendered through the
\* synthesized root-render call; without any of those the first file.
C26_EntryByPriority ==
  (dev.case = "entry" /\ dev.done) =>
    LET index == FirstPresent(dev.fileList,
                   << "/index.js", "/index.jsx", "/index.ts", "/index.tsx" >>)
        app == FirstPresent(dev.fileList,
                   << "/App.js", "/App.jsx", "/App.tsx", "/App.ts" >>)
    IN  IF index # NoPath
          THEN dev.entryScript = [kind |-> "require", file |-> index]
          ELSE IF app # NoPath
            THEN dev.entryScript = [kind |-> "render", file |-> app]
            ELSE dev.fileList # <<>> =>
                   dev.entryScript = [kind |-> "render", file |-> dev.fileList[1]]

\* The kinds of statement the module under study is made of
SourceHas(kinds) == \E i \in DOMAIN dev.source : dev.source[i].kind \in kinds

\* C24: after the rewrite every named export (export const X, export
\* function X) is written to the module's export table, so that an import
\* of { X } through the loader obtains X.
C24_NamedExportsReachTable ==
  (dev.case = "module" /\ dev.done) =>
    \A i \in DOMAIN dev.source :
      dev.source[i].kind \in {"exportFunction", "exportConst"} =>
        dev.source[i].name \in dev.exports.props

\* C25: a module that holds export default function F has F itself as its
\* exports once it is rewritten and run, whatever else the module holds.
C25_DefaultFunctionExported ==
  (dev.case = "module" /\ dev.done) =>
    \A i \in DOMAIN dev.source :
      dev.source[i].kind = "exportDefaultFunction" =>
        dev.exports.value = dev.source[i].name

\* C22: every /__poll request gets exactly one response: at once, with
\* changed true, when lastModTime is greater than its since as it arrives;
\* otherwise after a hold of 2 s, with changed telling whether lastModTime is
\* greater than its since at that moment.
C22_OneResponsePerPoll ==
  /\ [][\A i \in 1..MaxPolls :
          /\ (Len(dev.polls) < i /\ Len(dev'.polls) >= i) =>
               IF dev.lastModTime > dev'.polls[i].since
                 THEN dev'.polls[i].answers = 1 /\ dev'.polls[i].changed
                 ELSE dev'.polls[i].answers = 0
          /\ Len(dev.polls) >= i =>
               /\ Len(dev'.polls) >= i
               /\ dev.polls[i].answers = 1 => dev'.polls[i] = dev.polls[i]
               /\ (dev.polls[i].answers = 0 /\ dev'.polls[i].answers # 0) =>
                    /\ dev'.polls[i].answers = 1
                    /\ dev.now >= dev.polls[i].at + 2000
                    /\ dev'.polls[i].changed
                         = (dev.lastModTime > dev.polls[i].since)]_vars
  /\ \A i \in 1..MaxPolls :
       (Len(dev.polls) >= i) ~> (Len(dev.polls) >= i /\ dev.polls[i].answers = 1)

\* A request held because nothing had changed since its since, and answered
\* at the end of the hold with the change that came meanwhile
C22_Witness ==
  \E i \in DOMAIN dev.polls :
    /\ dev.polls[i].answers = 1
    /\ dev.polls[i].due = dev.polls[i].at + 2000
    /\ dev.polls[i].since >= dev.polls[i].mtime
    /\ dev.polls[i].changed
    /\ dev.lastModTime > dev.polls[i].at

\* C23: while the server is live, a request that arrives after a project
\* file was written later than its since is answered changed true, at any
\* time of the server's life and without a working fs.watch as well.
C23_ChangeReported ==
  dev.case = "poll" =>
    \A i \in DOMAIN dev.polls :
      (dev.polls[i].answers = 1 /\ dev.polls[i].mtime > dev.polls[i].since) =>
        dev.polls[i].changed

\* C31: the packument cache is empty whenever a resolve / resolvePackages
\* call starts, so no resolve uses a packument an earlier resolve fetched.
C31_CacheEmptyAtResolve ==
  [][\A h \in Handlers :
       (inst[h] = NoInst /\ inst'[h] # NoInst) => packumentCache = {}]_vars

\* C32: when the range a name is asked for is a key of the packument's
\* dist-tags, resolveDep selects exactly the version the tag points to, be
\* it a release or a prerelease.
C32_TagSelectsItsVersion ==
  [][(/\ sem.case = "resolve"
      /\ sem.demands # <<>>
      /\ sem.map = <<>>
      /\ Head(sem.demands).kind = sem.tag.name) =>
       sem'.map = <<[version |-> sem.tag.version, range |-> Head(sem.demands)]>>]_vars

\* The extended headers that stand directly before the header at i
RECURSIVE RunBefore(_)
RunBefore(i) ==
  IF i > 1 /\ tar.blocks[i - 1].kind \in {"x", "g", "L"}
    THEN RunBefore(i - 1) \cup {i - 1}
    ELSE {}

\* The names those headers carry for the entry at i
OverridesFor(i) ==
  {tar.blocks[j].name : j \in {k \in RunBefore(i) :
      tar.blocks[k].kind \in {"x", "L"} /\ tar.blocks[k].name # ""}}

\* C33: a PAX path or GNU long name is given to the next real entry and to
\* no later one: an entry extracted under another name than its own has that
\* name from an extended header standing directly before it, and an entry
\* with such headers before it is extracted under one of their names.
C33_OverrideForNextEntryOnly ==
  \A n \in 1..Len(tar.named) :
    LET e == tar.named[n]
    IN  IF OverridesFor(e.at) = {}
          THEN e.name = tar.blocks[e.at].name
          ELSE e.name \in OverridesFor(e.at)

\* C34: the loop over the headers ends only at two consecutive zero blocks
\* or at the end of the input: when it has ended, every real entry with no
\* two consecutive zero blocks before it has been extracted.
C34_EndsAtTwoZeroBlocks ==
  tar.ended =>
    \A i \in DOMAIN tar.blocks :
      (/\ tar.blocks[i].kind = "0"
       /\ ~\E j \in 1..(i - 2) :
             tar.blocks[j].kind = "zero" /\ tar.blocks[j + 1].kind = "zero") =>
        \E n \in 1..Len(tar.named) : tar.named[n].at = i

\* C40: of the commands c1 && ... && cn of a script string only the last
\* one is called with the extra arguments of npm run; the others are called
\* with the arguments written in the script.
C40_ExtraArgsToLastOnly ==
  npm.case = "script" =>
    \A i \in 1..Len(npm.calls) :
      npm.calls[i] = IF i = Len(npm.parts)
                       THEN npm.parts[i].args \o npm.args
                       ELSE npm.parts[i].args

\* C39: the KEY=VALUE prefixes of script commands are in process.env only
\* while their command runs: when no executeSingle call is running, the
\* variable has the value it had before the first call, however the calls
\* of concurrent tasks interleaved.
C39_EnvRestored ==
  (npm.case = "env" /\ \A t \in DOMAIN npm.running : npm.running[t] # "running") =>
    npm.env = npm.before

\* The name of the stub linkBins writes for a package
StubName(pkg) == IF pkg.bin.kind = "string" THEN Unscoped(pkg.name) ELSE pkg.bin.name

\* C35: for every bin entry of a package the install put in place, runBin of
\* its name runs the file path.resolve(<package dir>, relPath); the stub of a
\* string-valued bin has the unscoped name of the package.
C35_RunBinRunsLinkedFile ==
  (npm.case = "bins" /\ npm.ran # NoRun) =>
    \A pkg \in npm.packages :
      (pkg.name \in npm.dirs /\ StubName(pkg) = npm.ran.bin) =>
        npm.ran.file = PkgDir(npm.cwd, pkg.name) \o <<"/">> \o pkg.bin.path

\* C38: npm uninstall P removes node_modules/P and the stubs P wrote, and
\* leaves the directory and the stubs of every other package as they were.
C38_UninstallTouchesOnlyP ==
  [][\A name \in npm.dirs \ npm'.dirs :
       /\ npm'.dirs = npm.dirs \ {name}
       /\ npm'.stubs = {st \in npm.stubs : st.by # name}]_vars

\* C36: in the loader of the page every module function is invoked at most
\* once, whatever the modules require: requires in a cycle come to an end
\* with the exports filled so far, and a module whose function threw is not
\* run again when it is required again.
C36_ModuleInvokedOnce ==
  /\ [](dev.case = "loader" => \A m \in DOMAIN dev.invoked : dev.invoked[m] <= 1)
  /\ <>(dev.case = "loader" => (dev.frames = <<>> /\ dev.top = <<>>))

\* C36 witness: the page is loaded; its modules require each other in a
\* cycle, one got the unfinished exports of the other, and the entry module
\* threw, was required again and ran once
C36_Witness ==
  /\ dev.case = "loader"
  /\ dev.frames = <<>> /\ dev.top = <<>>
  /\ 2 \in dev.moduleCode[1].requires /\ 1 \in dev.moduleCode[2].requires
  /\ 1 \in dev.partial
  /\ 1 \in dev.thrown
  /\ dev.invoked[1] = 1 /\ dev.invoked[2] = 1

\* Whether a file is below a directory
Inside(dir, file) ==
  Len(file) > Len(dir) /\ SubSeq(file, 1, Len(dir)) = dir

\* C37: the static endpoint sends only files inside the project directory,
\* whatever the request path, '..' segments included.
C37_ServesOnlyProjectFiles ==
  (dev.case = "static" /\ dev.reply.status = 200) =>
    Inside(dev.projectDir, dev.reply.file)

====
